---- MODULE Spec2Model ----
(***************************************************************************)
(* The VML markup engine of projects/bidirectional-converter:              *)
(* VMLSyntax, VMLParser, VMLConverter and VMLLanguageHandler of            *)
(* vml_language_handler.py.                                                *)
(*                                                                         *)
(* A Python str is a sequence of one-character strings; "\n" is the line   *)
(* break. A regular expression is modelled by an operator that computes    *)
(* what re.match / re.sub computes for it.                                 *)
(***************************************************************************)
EXTENDS Integers, Sequences, FiniteSets, TLC

VARIABLES
    pc,             \* position of the caller / of the running parse call
    op,             \* the entry point of the current call
    input,          \* the text buffer handed to the current call
    lines,          \* parse: content.split('\n')
    i,              \* parse: the loop index (1-based here, 0-based in the code)
    elements,       \* VMLParser.elements of the parser that runs the call
    metadata,       \* VMLLanguageHandler.parser.metadata
    conv_metadata,  \* VMLLanguageHandler.converter.parser.metadata
    result          \* the value returned by the last call

vars == <<pc, op, input, lines, i, elements, metadata, conv_metadata, result>>

----------------------------------------------------------------------------
(* Strings *)

Min(S) == CHOOSE x \in S : \A y \in S : x <= y
Max(S) == CHOOSE x \in S : \A y \in S : x >= y

\* the least element of a set of positions, d when the set is empty
FirstOr(S, d) == IF S = {} THEN d ELSE Min(S)

NL == "\n"
\* the backquote character, which a TLA+ string cannot hold
BACKQUOTE == "backquote"

\* str.isspace() for one character, as \s and str.strip() use it
IsSpace(c) == c \in {" ", "\t", "\n", "\r"}

\* \w
WordChars == {"a", "b", "c", "d", "e", "f", "g", "h", "i", "j", "k", "l", "m",
              "n", "o", "p", "q", "r", "s", "t", "u", "v", "w", "x", "y", "z",
              "A", "B", "C", "D", "E", "F", "G", "H", "I", "J", "K", "L", "M",
              "N", "O", "P", "Q", "R", "S", "T", "U", "V", "W", "X", "Y", "Z",
              "0", "1", "2", "3", "4", "5", "6", "7", "8", "9", "_"}
IsWord(c) == c \in WordChars

\* s[k:] (k is a 1-based position)
From(s, k) == SubSeq(s, k, Len(s))

\* s.startswith(p, k-1)
StartsWithAt(s, k, p) ==
    /\ k >= 1
    /\ k + Len(p) - 1 <= Len(s)
    /\ \A n \in 1..Len(p) : s[k + n - 1] = p[n]

\* s.startswith(p), s.endswith(p)
startswith(s, p) == StartsWithAt(s, 1, p)
endswith(s, p) == StartsWithAt(s, Len(s) - Len(p) + 1, p)

\* p in s
Contains(s, p) == \E k \in 1..Len(s) : StartsWithAt(s, k, p)

\* s.find(p) as a 1-based position, 0 when absent
Find(s, p) == FirstOr({k \in 1..Len(s) : StartsWithAt(s, k, p)}, 0)

\* s with the characters outside the positions keep cut from both ends
Trim(s, keep) == IF keep = {} THEN <<>> ELSE SubSeq(s, Min(keep), Max(keep))

\* s.strip(chars) for a set of characters
StripSet(s, chars) == Trim(s, {k \in 1..Len(s) : s[k] \notin chars})

\* s.strip()
strip(s) == Trim(s, {k \in 1..Len(s) : ~IsSpace(s[k])})

\* s.split(sep): always at least one piece; k is s.find(sep)
RECURSIVE split(_, _)
SplitAt(s, sep, k) ==
    IF k = 0 THEN <<s>>
    ELSE <<SubSeq(s, 1, k - 1)>> \o split(From(s, k + Len(sep)), sep)
split(s, sep) == SplitAt(s, sep, Find(s, sep))

\* s.split(sep, 1) of a string that holds sep; k is s.find(sep)
Split1At(s, sep, k) == <<SubSeq(s, 1, k - 1), From(s, k + Len(sep))>>
Split1(s, sep) == Split1At(s, sep, Find(s, sep))

\* sep.join(parts)
RECURSIVE join(_, _)
join(sep, parts) ==
    IF parts = <<>> THEN <<>>
    ELSE IF Len(parts) = 1 THEN parts[1]
    ELSE parts[1] \o sep \o join(sep, Tail(parts))

\* s.count(p): non-overlapping occurrences, scanning from the left; k is s.find(p)
RECURSIVE count(_, _)
CountAt(s, p, k) == IF k = 0 THEN 0 ELSE 1 + count(From(s, k + Len(p)), p)
count(s, p) == CountAt(s, p, Find(s, p))

\* the number of characters of a class that s holds in a row from position k
RunOfSpace(s, k) == FirstOr({n \in k..Len(s) : ~IsSpace(s[n])}, Len(s) + 1) - k
RunOfWord(s, k) == FirstOr({n \in k..Len(s) : ~IsWord(s[n])}, Len(s) + 1) - k
RunOfChar(s, k, c) == FirstOr({n \in k..Len(s) : s[n] # c}, Len(s) + 1) - k

\* the first position >= k of character c in s, 0 when there is none
FirstAt(s, k, c) == FirstOr({n \in k..Len(s) : s[n] = c}, 0)

----------------------------------------------------------------------------
(* VMLSyntax: each pattern as the result of re.match(pattern, line). The   *)
(* positions a match passes through are parameters of the helper that      *)
(* finishes the match.                                                     *)

NoMatch == [matched |-> FALSE]

\* r'^(#{1,6})\s+(.+)$': h is the run of '#', ws the run of whitespace after it
HeadingMatch(line, h, ws) ==
    IF h < 1 \/ h > 6 \/ ws < 1 THEN NoMatch
    ELSE IF h + 1 + ws <= Len(line)
         THEN [matched |-> TRUE, g1 |-> SubSeq(line, 1, h), g2 |-> From(line, h + 1 + ws)]
    \* \s+ gives its last character back to (.+)
    ELSE IF ws >= 2
         THEN [matched |-> TRUE, g1 |-> SubSeq(line, 1, h), g2 |-> From(line, Len(line))]
    ELSE NoMatch
HeadingRun(line, h) == HeadingMatch(line, h, RunOfSpace(line, h + 1))
HEADING_PATTERN(line) == HeadingRun(line, RunOfChar(line, 1, "#"))

\* (?:\[([^\]]*)\])? at position p: q is the first ']' after p, 0 when none
HasBracket(line, p, q) == p <= Len(line) /\ line[p] = "[" /\ q # 0

\* r'^@(\w+)(?:\[([^\]]*)\])?\s*(.*)$'; g2 = <<>> stands for both None and '';
\* p is the position after the name, r the position after the bracket
DirectiveRest(line, p, g2, r) ==
    [matched |-> TRUE, g1 |-> SubSeq(line, 2, p - 1), g2 |-> g2,
     g3 |-> From(line, r + RunOfSpace(line, r))]
DirectiveBracket(line, p, q) ==
    IF HasBracket(line, p, q)
    THEN DirectiveRest(line, p, SubSeq(line, p + 1, q - 1), q + 1)
    ELSE DirectiveRest(line, p, <<>>, p)
DirectiveName(line, w) ==
    IF ~startswith(line, <<"@">>) \/ w < 1 THEN NoMatch
    ELSE DirectiveBracket(line, 2 + w, FirstAt(line, 3 + w, "]"))
DIRECTIVE_PATTERN(line) == DirectiveName(line, RunOfWord(line, 2))

\* r'^---\s*$'
METADATA_PATTERN(line) ==
    startswith(line, <<"-", "-", "-">>) /\ RunOfSpace(line, 4) = Len(line) - 3

\* r'^::\s*(\w+)(?:\[([^\]]*)\])?\s*$'; g2 = <<>> stands for both None and '';
\* n is the position of the name, p the position after it
SectionStartBracket(line, n, p, q) ==
    IF HasBracket(line, p, q) /\ RunOfSpace(line, q + 1) = Len(line) - q
    THEN [matched |-> TRUE, g1 |-> SubSeq(line, n, p - 1), g2 |-> SubSeq(line, p + 1, q - 1)]
    ELSE IF RunOfSpace(line, p) = Len(line) - p + 1
    THEN [matched |-> TRUE, g1 |-> SubSeq(line, n, p - 1), g2 |-> <<>>]
    ELSE NoMatch
SectionStartName(line, n, w) ==
    IF ~startswith(line, <<":", ":">>) \/ w < 1 THEN NoMatch
    ELSE SectionStartBracket(line, n, n + w, FirstAt(line, n + w + 1, "]"))
SectionStartAt(line, n) == SectionStartName(line, n, RunOfWord(line, n))
SECTION_START_PATTERN(line) == SectionStartAt(line, 3 + RunOfSpace(line, 3))

\* r'^::\s*/(\w+)\s*$'; n is the position of the '/', w the length of the name
SectionEndName(line, n, w) ==
    IF \/ ~startswith(line, <<":", ":">>)
       \/ ~StartsWithAt(line, n, <<"/">>)
       \/ w < 1
       \/ RunOfSpace(line, n + 1 + w) # Len(line) - n - w
    THEN NoMatch
    ELSE [matched |-> TRUE, g1 |-> SubSeq(line, n + 1, n + w)]
SectionEndAt(line, n) == SectionEndName(line, n, RunOfWord(line, n + 1))
SECTION_END_PATTERN(line) == SectionEndAt(line, 3 + RunOfSpace(line, 3))

\* r'^\|[\s\-:|]+\|$'
TABLE_SEPARATOR(line) ==
    /\ Len(line) >= 3
    /\ line[1] = "|"
    /\ line[Len(line)] = "|"
    /\ \A k \in 2..(Len(line) - 1) : IsSpace(line[k]) \/ line[k] \in {"-", ":", "|"}

\* r'^\|(.+)\|$'
TABLE_ROW(line) ==
    /\ Len(line) >= 3
    /\ line[1] = "|"
    /\ line[Len(line)] = "|"
    /\ \A k \in 2..(Len(line) - 1) : line[k] # NL

\* CUSTOM_MARKUP, in the dict's insertion order
CUSTOM_MARKUP == <<
    [type |-> <<"e","m","p","h","a","s","i","s">>, start |-> <<"!", "!">>, end |-> <<"!", "!">>],
    [type |-> <<"c","o","n","t","e","x","t">>,     start |-> <<"<", "~">>, end |-> <<"~", ">">>],
    [type |-> <<"n","o","t","e">>,                 start |-> <<"(", "*">>, end |-> <<"*", ")">>],
    [type |-> <<"w","a","r","n","i","n","g">>,     start |-> <<"/", "!">>, end |-> <<"!", "/">>],
    [type |-> <<"s","u","c","c","e","s","s">>,     start |-> <<"/", "+">>, end |-> <<"+", "/">>],
    [type |-> <<"c","o","d","e","_","r","e","f">>, start |-> <<"@", "[">>, end |-> <<"]", "@">> ] >>

----------------------------------------------------------------------------
(* re.sub for the inline rules: every rule is open (content) close, where  *)
(* the content is one or more characters outside excl, matched lazily or *)
(* up to the first character of excl that   starts the closer.             *)

\* the position of the closer of the leftmost-shortest match that opens at k, 0 when none
CloseAt(s, k, open, close, excl) ==
    IF ~StartsWithAt(s, k, open) THEN 0
    ELSE FirstOr({j \in (k + Len(open) + 1)..(Len(s) - Len(close) + 1) :
                    /\ StartsWithAt(s, j, close)
                    /\ \A n \in (k + Len(open))..(j - 1) : s[n] \notin excl}, 0)

\* re.sub(open(content)close, tagO \1 tagC, s), scanning from position k:
\* the leftmost match at or after k (it opens at n and closes at j) is
\* replaced, and the scan resumes after it
RECURSIVE re_sub(_, _, _, _, _, _, _)
ReplaceAt(s, k, open, close, excl, tagO, tagC, n, j) ==
    SubSeq(s, k, n - 1)
    \o tagO \o SubSeq(s, n + Len(open), j - 1) \o tagC
    \o re_sub(s, j + Len(close), open, close, excl, tagO, tagC)
ReplaceFrom(s, k, open, close, excl, tagO, tagC, n) ==
    IF n = 0 THEN From(s, k)
    ELSE ReplaceAt(s, k, open, close, excl, tagO, tagC, n, CloseAt(s, n, open, close, excl))
re_sub(s, k, open, close, excl, tagO, tagC) ==
    ReplaceFrom(s, k, open, close, excl, tagO, tagC,
                FirstOr({n \in k..Len(s) : CloseAt(s, n, open, close, excl) # 0}, 0))

\* f'<{name}>' and f'</{name}>'
OpenTag(name) == <<"<">> \o name \o <<">">>
CloseTag(name) == <<"<", "/">> \o name \o <<">">>

\* VARIABLE_PATTERN r'\$\{([^}]+)\}' -> <var>..</var>
sub_variable(text) ==
    re_sub(text, 1, <<"$", "{">>, <<"}">>, {"}"},
           OpenTag(<<"v","a","r">>), CloseTag(<<"v","a","r">>))

\* TEMPLATE_PATTERN r'%\{([^}]+)\}' -> <template>..</template>
sub_template(text) ==
    re_sub(text, 1, <<"%", "{">>, <<"}">>, {"}"},
           OpenTag(<<"t","e","m","p","l","a","t","e">>),
           CloseTag(<<"t","e","m","p","l","a","t","e">>))

\* ANNOTATION_PATTERN r'\[\[([^\]]+)\]\]' -> <annotation>..</annotation>
sub_annotation(text) ==
    re_sub(text, 1, <<"[", "[">>, <<"]", "]">>, {"]"},
           OpenTag(<<"a","n","n","o","t","a","t","i","o","n">>),
           CloseTag(<<"a","n","n","o","t","a","t","i","o","n">>))

\* f'{re.escape(start)}(.+?){re.escape(end)}' -> <type>..</type>
sub_custom(text, m) ==
    re_sub(text, 1, m.start, m.end, {NL}, OpenTag(m.type), CloseTag(m.type))

\* BOLD_PATTERN r'\*\*(.+?)\*\*' -> <b>..</b>
sub_bold(text) ==
    re_sub(text, 1, <<"*", "*">>, <<"*", "*">>, {NL}, OpenTag(<<"b">>), CloseTag(<<"b">>))

\* ITALIC_PATTERN r'\*(.+?)\*' -> <i>..</i>
sub_italic(text) ==
    re_sub(text, 1, <<"*">>, <<"*">>, {NL}, OpenTag(<<"i">>), CloseTag(<<"i">>))

\* CODE_INLINE_PATTERN, a backquote on each side of (.+?) -> <code>..</code>
sub_code(text) ==
    re_sub(text, 1, <<BACKQUOTE>>, <<BACKQUOTE>>, {NL},
           OpenTag(<<"c","o","d","e">>), CloseTag(<<"c","o","d","e">>))

\* the loop over CUSTOM_MARKUP.items(), from entry k on
RECURSIVE custom_loop(_, _)
custom_loop(text, k) ==
    IF k > Len(CUSTOM_MARKUP) THEN text
    ELSE custom_loop(sub_custom(text, CUSTOM_MARKUP[k]), k + 1)

\* a variant that runs the standard markdown rules before the custom markup
process_inline_markdown_first(text) ==
    custom_loop(sub_code(sub_italic(sub_bold(
        sub_annotation(sub_template(sub_variable(text)))))), 1)

\* VMLParser._process_inline_elements
process_inline_elements(text) ==
    sub_code(sub_italic(sub_bold(
        custom_loop(sub_annotation(sub_template(sub_variable(text))), 1))))

----------------------------------------------------------------------------
(* dict: insertion-ordered, a sequence of entries with distinct keys *)

\* d[key] = value for an entry e that carries the key in e.k
DictSet(d, e) ==
    IF \E n \in 1..Len(d) : d[n].k = e.k
    THEN [n \in 1..Len(d) |-> IF d[n].k = e.k THEN e ELSE d[n]]
    ELSE Append(d, e)

DictHas(d, key) == \E n \in 1..Len(d) : d[n].k = key
DictGet(d, key) == d[CHOOSE n \in 1..Len(d) : d[n].k = key]

----------------------------------------------------------------------------
(* VMLParser *)

\* VMLElement; children is None (here <<>>) except for a section
VMLElement(type, content, attributes, children, line_number) ==
    [type |-> type, content |-> content, attributes |-> attributes,
     children |-> children, line_number |-> line_number]

\* a variant in which a key keeps the value it was given first
MetadataSetFirst(md, kv) ==
    IF DictHas(md, strip(kv[1])) THEN md
    ELSE DictSet(md, [k |-> strip(kv[1]), v |-> strip(kv[2])])

\* self.metadata[key.strip()] = value.strip() for kv = line.split(':', 1)
MetadataSet(md, kv) == DictSet(md, [k |-> strip(kv[1]), v |-> strip(kv[2])])

\* VMLParser._process_metadata: self.metadata after the lines from k on
RECURSIVE process_metadata(_, _, _)
process_metadata(md, mlines, k) ==
    IF k > Len(mlines) THEN md
    ELSE IF Contains(mlines[k], <<":">>)
         THEN process_metadata(MetadataSet(md, Split1(mlines[k], <<":">>)), mlines, k + 1)
         ELSE process_metadata(md, mlines, k + 1)

\* VMLParser._parse_metadata_block: the returned index and self.metadata;
\* k is the first line from start_idx on that matches METADATA_PATTERN, 0 when none
MetadataBlockEnd(ls, start_idx, md, k) ==
    IF k = 0 THEN [next |-> Len(ls) + 1, metadata |-> md]
    ELSE [next |-> k + 1,
          metadata |-> process_metadata(md, SubSeq(ls, start_idx, k - 1), 1)]
parse_metadata_block(ls, start_idx, md) ==
    MetadataBlockEnd(ls, start_idx, md,
                     FirstOr({k \in start_idx..Len(ls) : METADATA_PATTERN(ls[k])}, 0))

\* attributes[key.strip()] = value.strip().strip('"\'') for kv = pair.split('=', 1)
AttributeSet(attributes, kv) ==
    DictSet(attributes, [k |-> strip(kv[1]), true |-> FALSE,
                         v |-> StripSet(strip(kv[2]), {"\"", "'"})])

\* the loop of VMLParser._parse_attributes over pairs[k:]
RECURSIVE attributes_loop(_, _, _)
attributes_loop(attributes, pairs, k) ==
    IF k > Len(pairs) THEN attributes
    ELSE IF Contains(pairs[k], <<"=">>)
         THEN attributes_loop(AttributeSet(attributes, Split1(pairs[k], <<"=">>)),
                              pairs, k + 1)
         ELSE attributes_loop(
                  DictSet(attributes, [k |-> strip(pairs[k]), true |-> TRUE, v |-> <<>>]),
                  pairs, k + 1)

\* VMLParser._parse_attributes
parse_attributes(attr_string) ==
    IF attr_string = <<>> THEN <<>>
    ELSE attributes_loop(<<>>, split(attr_string, <<",">>), 1)

\* a variant that runs the inline substitutions on the trailing text
parse_directive_inline(match, line_num) ==
    VMLElement("directive", process_inline_elements(match.g3),
               [directive |-> match.g1, params |-> parse_attributes(match.g2)],
               <<>>, line_num)

\* VMLParser._parse_directive
parse_directive(match, line_num) ==
    VMLElement("directive", match.g3,
               [directive |-> match.g1, params |-> parse_attributes(match.g2)],
               <<>>, line_num)

\* [cell.strip() for cell in cells]
StripCells(cells) == [n \in 1..Len(cells) |-> strip(cells[n])]

\* VMLParser._parse_table_row
parse_table_row(line) == StripCells(split(StripSet(line, {"|"}), <<"|">>))

\* a variant without the elif branch: a trailing colon alone aligns left
AlignmentsNoRight(cells) ==
    [n \in 1..Len(cells) |->
        IF startswith(cells[n], <<":">>) /\ endswith(cells[n], <<":">>) THEN "center"
        ELSE "left"]

\* the loop of VMLParser._parse_table_alignment
Alignments(cells) ==
    [n \in 1..Len(cells) |->
        IF startswith(cells[n], <<":">>) /\ endswith(cells[n], <<":">>) THEN "center"
        ELSE IF endswith(cells[n], <<":">>) THEN "right"
        ELSE "left"]

\* VMLParser._parse_table_alignment
parse_table_alignment(line) == Alignments(parse_table_row(line))

\* VMLParser._parse_table, whose while loop stops at index end
TableUpTo(ls, start_idx, end) ==
    [raised |-> FALSE,
     element |-> <<VMLElement("table", <<>>,
                     [headers |-> parse_table_row(ls[start_idx]),
                      alignment |-> parse_table_alignment(ls[start_idx + 1]),
                      rows |-> [n \in 1..(end - start_idx - 2) |->
                                   parse_table_row(ls[start_idx + 1 + n])]],
                     <<>>, start_idx - 1)>>,
     next |-> end]

\* VMLParser._parse_table; lines[start_idx + 1] raises IndexError past the end
parse_table(ls, start_idx) ==
    IF start_idx + 1 > Len(ls)
    THEN [raised |-> TRUE, element |-> <<>>, next |-> start_idx]
    ELSE TableUpTo(ls, start_idx,
                   FirstOr({k \in (start_idx + 2)..Len(ls) : ~TABLE_ROW(ls[k])},
                           Len(ls) + 1))

\* a variant that keeps the heading text as written, without inline substitution
HeadingOfRaw(match, line_num) ==
    IF ~match.matched THEN [raised |-> TRUE, element |-> <<>>, next |-> line_num + 2]
    ELSE [raised |-> FALSE,
          element |-> <<VMLElement("heading", match.g2,
                                   [level |-> Len(match.g1)], <<>>, line_num)>>,
          next |-> line_num + 2]

\* VMLParser._parse_heading for match = re.match(HEADING_PATTERN, line);
\* match.group raises AttributeError when match is None
HeadingOf(match, line_num) ==
    IF ~match.matched THEN [raised |-> TRUE, element |-> <<>>, next |-> line_num + 2]
    ELSE [raised |-> FALSE,
          element |-> <<VMLElement("heading", process_inline_elements(match.g2),
                                   [level |-> Len(match.g1)], <<>>, line_num)>>,
          next |-> line_num + 2]
parse_heading(line, line_num) == HeadingOf(HEADING_PATTERN(line), line_num)

\* VMLParser._parse_paragraph
parse_paragraph(line, line_num) ==
    VMLElement("paragraph", process_inline_elements(line), [dict |-> <<>>], <<>>, line_num)

\* an end marker that closes section_name
ClosesSection(match, section_name) == match.matched /\ match.g1 = section_name

\* the while loop of VMLParser._parse_section: the index it stops at
RECURSIVE section_scan(_, _, _, _)
section_scan(ls, k, section_name, nesting_level) ==
    IF ~(k <= Len(ls) /\ nesting_level > 0) THEN k
    ELSE IF SECTION_START_PATTERN(ls[k]).matched
         THEN section_scan(ls, k + 1, section_name, nesting_level + 1)
    ELSE IF ClosesSection(SECTION_END_PATTERN(ls[k]), section_name)
         THEN IF nesting_level - 1 = 0 THEN k
              ELSE section_scan(ls, k + 1, section_name, nesting_level - 1)
    ELSE section_scan(ls, k + 1, section_name, nesting_level)

RECURSIVE parse_loop(_, _, _, _, _)

\* the number of section parsers, one inside the other, that the interpreter's
\* recursion limit leaves room for: each nested section costs the frames of
\* _parse_section and of the parse it calls (about 500 under the default limit
\* of 1000 frames; scaled down here)
RecursionLimit == 4

\* VMLParser.parse of a parser whose metadata is md: what it returns, and its metadata
parse(content, md) == parse_loop(split(content, <<NL>>), 1, <<>>, md, 1)

\* attributes = self._parse_attributes(params); attributes['name'] = section_name
SectionAttributes(match) ==
    DictSet(parse_attributes(match.g2),
            [k |-> <<"n", "a", "m", "e">>, true |-> FALSE, v |-> match.g1])

\* a variant in which the content is parsed into the list of the parent
SectionOfShared(match, start_idx, k, sub) ==
    [raised |-> sub.raised,
     element |-> sub.elements
                 \o <<VMLElement("section", match.g1, [dict |-> SectionAttributes(match)],
                                 <<>>, start_idx - 1)>>,
     next |-> k + 1]

\* the end of VMLParser._parse_section: sub is the parse of the content lines by
\* a new VMLParser, k the index the while loop stopped at
SectionOf(match, start_idx, k, sub) ==
    [raised |-> sub.raised,
     element |-> <<VMLElement("section", match.g1, [dict |-> SectionAttributes(match)],
                              sub.elements, start_idx - 1)>>,
     next |-> k + 1]

\* section_parser.parse('\n'.join(content_lines)), the parser nested depth deep;
\* the call raises RecursionError once the frames run out
SectionUpTo(ls, match, start_idx, k, depth) ==
    IF depth + 1 > RecursionLimit
    THEN [raised |-> TRUE, element |-> <<>>, next |-> start_idx]
    ELSE SectionOf(match, start_idx, k,
                   parse_loop(split(join(<<NL>>, SubSeq(ls, start_idx + 1, k - 1)), <<NL>>),
                              1, <<>>, <<>>, depth + 1))
SectionFrom(ls, match, start_idx, depth) ==
    IF ~match.matched THEN [raised |-> TRUE, element |-> <<>>, next |-> start_idx]
    ELSE SectionUpTo(ls, match, start_idx,
                     section_scan(ls, start_idx + 1, match.g1, 1), depth)

\* VMLParser._parse_section, called by a parser nested depth deep
parse_section(ls, start_idx, depth) ==
    SectionFrom(ls, SECTION_START_PATTERN(ls[start_idx]), start_idx, depth)

\* a variant that tests the table rule before the heading rule
parse_rule_table_first(ls, k) ==
    IF strip(ls[k]) = <<>> THEN "blank"
    ELSE IF METADATA_PATTERN(ls[k]) THEN "metadata"
    ELSE IF DIRECTIVE_PATTERN(ls[k]).matched THEN "directive"
    ELSE IF SECTION_START_PATTERN(ls[k]).matched THEN "section"
    ELSE IF k + 1 <= Len(ls) /\ TABLE_SEPARATOR(ls[k + 1]) THEN "table"
    ELSE IF HEADING_PATTERN(ls[k]).matched THEN "heading"
    ELSE "paragraph"

\* the branch the while loop of VMLParser.parse takes at index k
parse_rule(ls, k) ==
    IF strip(ls[k]) = <<>> THEN "blank"
    ELSE IF METADATA_PATTERN(ls[k]) THEN "metadata"
    ELSE IF DIRECTIVE_PATTERN(ls[k]).matched THEN "directive"
    ELSE IF SECTION_START_PATTERN(ls[k]).matched THEN "section"
    ELSE IF HEADING_PATTERN(ls[k]).matched THEN "heading"
    ELSE IF k + 1 <= Len(ls) /\ TABLE_SEPARATOR(ls[k + 1]) THEN "table"
    ELSE "paragraph"

\* what one iteration of the while loop of VMLParser.parse leaves: the rule that
\* took the line, the element appended (at most one), the next index, self.metadata
Step(rule, r, md) ==
    [rule |-> rule, raised |-> r.raised, element |-> r.element, next |-> r.next,
     metadata |-> md]
StepMeta(r) ==
    [rule |-> "metadata", raised |-> FALSE, element |-> <<>>, next |-> r.next,
     metadata |-> r.metadata]
StepOne(rule, k, element, md) ==
    [rule |-> rule, raised |-> FALSE, element |-> element, next |-> k + 1, metadata |-> md]

\* the body of the branch rule of the while loop at index k
StepOf(rule, ls, k, md, depth) ==
    CASE rule = "blank" -> StepOne(rule, k, <<>>, md)
      [] rule = "metadata" -> StepMeta(parse_metadata_block(ls, k + 1, md))
      [] rule = "directive" ->
            StepOne(rule, k, <<parse_directive(DIRECTIVE_PATTERN(ls[k]), k - 1)>>, md)
      [] rule = "section" -> Step(rule, parse_section(ls, k, depth), md)
      [] rule = "heading" -> Step(rule, parse_heading(ls[k], k - 1), md)
      [] rule = "table" -> Step(rule, parse_table(ls, k), md)
      [] OTHER -> StepOne(rule, k, <<parse_paragraph(ls[k], k - 1)>>, md)

\* one iteration of the while loop of VMLParser.parse at index k
parse_step(ls, k, md, depth) == StepOf(parse_rule(ls, k), ls, k, md, depth)

\* the while loop of VMLParser.parse after the iteration that left st
LoopAfter(ls, els, st, depth) ==
    IF st.raised THEN [raised |-> TRUE, elements |-> els, metadata |-> st.metadata]
    ELSE parse_loop(ls, st.next, els \o st.element, st.metadata, depth)

\* the while loop of VMLParser.parse from index k with self.elements = els
parse_loop(ls, k, els, md, depth) ==
    IF k > Len(ls) THEN [raised |-> FALSE, elements |-> els, metadata |-> md]
    ELSE LoopAfter(ls, els, parse_step(ls, k, md, depth), depth)

----------------------------------------------------------------------------
(* the string literals of VMLConverter and VMLLanguageHandler *)

\* str(element.type) of each VMLElementType member the converter names
TypeStr ==
    [
      \* 'VMLElementType.SECTION'
      SECTION |->
        <<"V", "M", "L", "E", "l", "e", "m", "e", "n", "t", "T", "y", "p", "e", ".", "S", "E", "C", "T", "I", "O", "N">>,
      \* 'VMLElementType.DIRECTIVE'
      DIRECTIVE |->
        <<"V", "M", "L", "E", "l", "e", "m", "e", "n", "t", "T", "y", "p", "e", ".", "D", "I", "R", "E", "C", "T", "I", "V", "E">>,
      \* 'VMLElementType.HEADING'
      HEADING |->
        <<"V", "M", "L", "E", "l", "e", "m", "e", "n", "t", "T", "y", "p", "e", ".", "H", "E", "A", "D", "I", "N", "G">>,
      \* 'VMLElementType.PARAGRAPH'
      PARAGRAPH |->
        <<"V", "M", "L", "E", "l", "e", "m", "e", "n", "t", "T", "y", "p", "e", ".", "P", "A", "R", "A", "G", "R", "A", "P", "H">>,
      \* 'VMLElementType.TABLE'
      TABLE |->
        <<"V", "M", "L", "E", "l", "e", "m", "e", "n", "t", "T", "y", "p", "e", ".", "T", "A", "B", "L", "E">>
    ]
\* the string literals of vml_to_html and _element_to_html
HtmlLit ==
    [
      \* '<th style="text-align: '
      TH1 |->
        <<"<", "t", "h", " ", "s", "t", "y", "l", "e", "=", "\"", "t", "e", "x", "t", "-", "a", "l", "i", "g", "n", ":", " ">>,
      \* '">'
      Q_GT |->
        <<"\"", ">">>,
      \* '</th>\n'
      TH2 |->
        <<"<", "/", "t", "h", ">", "\n">>,
      \* '<tr>\n'
      TR1 |->
        <<"<", "t", "r", ">", "\n">>,
      \* '</tr>\n'
      TR2 |->
        <<"<", "/", "t", "r", ">", "\n">>,
      \* '<td style="text-align: '
      TD1 |->
        <<"<", "t", "d", " ", "s", "t", "y", "l", "e", "=", "\"", "t", "e", "x", "t", "-", "a", "l", "i", "g", "n", ":", " ">>,
      \* '</td>\n'
      TD2 |->
        <<"<", "/", "t", "d", ">", "\n">>,
      \* 'left'
      LEFT |->
        <<"l", "e", "f", "t">>,
      \* '<h'
      LT_H |->
        <<"<", "h">>,
      \* '</h'
      LT_SL_H |->
        <<"<", "/", "h">>,
      \* '>\n'
      GT_NL |->
        <<">", "\n">>,
      \* '<p>'
      P1 |->
        <<"<", "p", ">">>,
      \* '</p>\n'
      P2 |->
        <<"<", "/", "p", ">", "\n">>,
      \* '<section class="'
      SEC1 |->
        <<"<", "s", "e", "c", "t", "i", "o", "n", " ", "c", "l", "a", "s", "s", "=", "\"">>,
      \* '">\n'
      Q_GT_NL |->
        <<"\"", ">", "\n">>,
      \* '</section>\n'
      SEC2 |->
        <<"<", "/", "s", "e", "c", "t", "i", "o", "n", ">", "\n">>,
      \* '<table>\n<thead>\n<tr>\n'
      TABLE1 |->
        <<"<", "t", "a", "b", "l", "e", ">", "\n", "<", "t", "h", "e", "a", "d", ">", "\n", "<", "t", "r", ">", "\n">>,
      \* '</tr>\n</thead>\n<tbody>\n'
      TABLE2 |->
        <<"<", "/", "t", "r", ">", "\n", "<", "/", "t", "h", "e", "a", "d", ">", "\n", "<", "t", "b", "o", "d", "y", ">", "\n">>,
      \* '</tbody>\n</table>\n'
      TABLE3 |->
        <<"<", "/", "t", "b", "o", "d", "y", ">", "\n", "<", "/", "t", "a", "b", "l", "e", ">", "\n">>,
      \* 'include'
      INCLUDE |->
        <<"i", "n", "c", "l", "u", "d", "e">>,
      \* '<!-- Include: '
      INC1 |->
        <<"<", "!", "-", "-", " ", "I", "n", "c", "l", "u", "d", "e", ":", " ">>,
      \* ' -->\n'
      CMT_END |->
        <<" ", "-", "-", ">", "\n">>,
      \* '<!-- Directive: '
      DIR1 |->
        <<"<", "!", "-", "-", " ", "D", "i", "r", "e", "c", "t", "i", "v", "e", ":", " ">>,
      \* '<!-- Unsupported element type: '
      UNSUP |->
        <<"<", "!", "-", "-", " ", "U", "n", "s", "u", "p", "p", "o", "r", "t", "e", "d", " ", "e", "l", "e", "m", "e", "n", "t", " ", "t", "y", "p", "e", ":", " ">>,
      \* 'title'
      TITLE |->
        <<"t", "i", "t", "l", "e">>,
      \* '<title>'
      TITLE1 |->
        <<"<", "t", "i", "t", "l", "e", ">">>,
      \* '</title>\n'
      TITLE2 |->
        <<"<", "/", "t", "i", "t", "l", "e", ">", "\n">>,
      \* '<!DOCTYPE html>\n<html>\n<head>\n<meta charset="UTF-8">\n'
      HTML_HEAD |->
        <<"<", "!", "D", "O", "C", "T", "Y", "P", "E", " ", "h", "t", "m", "l", ">", "\n", "<", "h", "t", "m", "l", ">", "\n", "<", "h", "e", "a", "d", ">", "\n", "<", "m", "e", "t", "a", " ", "c", "h", "a", "r", "s", "e", "t", "=", "\"", "U", "T", "F", "-", "8", "\"", ">", "\n">>,
      \* '</head>\n<body>\n'
      HTML_BODY |->
        <<"<", "/", "h", "e", "a", "d", ">", "\n", "<", "b", "o", "d", "y", ">", "\n">>,
      \* '\n</body>\n</html>'
      HTML_END |->
        <<"\n", "<", "/", "b", "o", "d", "y", ">", "\n", "<", "/", "h", "t", "m", "l", ">">>
    ]
\* the string literals of _element_to_markdown
MdLit ==
    [
      \* '<b>'
      B_O |->
        <<"<", "b", ">">>,
      \* '</b>'
      B_C |->
        <<"<", "/", "b", ">">>,
      \* '<i>'
      I_O |->
        <<"<", "i", ">">>,
      \* '</i>'
      I_C |->
        <<"<", "/", "i", ">">>,
      \* '<code>'
      C_O |->
        <<"<", "c", "o", "d", "e", ">">>,
      \* '</code>'
      C_C |->
        <<"<", "/", "c", "o", "d", "e", ">">>,
      \* '<!-- '
      CMT_START |->
        <<"<", "!", "-", "-", " ">>,
      \* ' -->\n\n'
      CMT_END2 |->
        <<" ", "-", "-", ">", "\n", "\n">>
    ]
\* the string literals of validate_syntax
ErrLit ==
    [
      \* 'Line '
      LINE |->
        <<"L", "i", "n", "e", " ">>,
      \* ': Unmatched section closing tag: '
      UNMATCHED |->
        <<":", " ", "U", "n", "m", "a", "t", "c", "h", "e", "d", " ", "s", "e", "c", "t", "i", "o", "n", " ", "c", "l", "o", "s", "i", "n", "g", " ", "t", "a", "g", ":", " ">>,
      \* ': Unclosed '
      UNCLOSED1 |->
        <<":", " ", "U", "n", "c", "l", "o", "s", "e", "d", " ">>,
      \* ' markup'
      UNCLOSED2 |->
        <<" ", "m", "a", "r", "k", "u", "p">>,
      \* 'Unclosed sections: '
      UNCLOSED_SECTIONS |->
        <<"U", "n", "c", "l", "o", "s", "e", "d", " ", "s", "e", "c", "t", "i", "o", "n", "s", ":", " ">>,
      \* 'Parser error: '
      PARSER_ERROR |->
        <<"P", "a", "r", "s", "e", "r", " ", "e", "r", "r", "o", "r", ":", " ">>
    ]

\* an alignment word as the str the code holds
AlignStr(align) ==
    IF align = "left" THEN HtmlLit.LEFT
    ELSE IF align = "center" THEN <<"c", "e", "n", "t", "e", "r">>
    ELSE <<"r", "i", "g", "h", "t">>

----------------------------------------------------------------------------
(* VMLConverter *)

Digits == <<"0", "1", "2", "3", "4", "5", "6", "7", "8", "9">>

\* str(n) for an int n >= 0
RECURSIVE str_int(_)
str_int(n) ==
    IF n < 10 THEN <<Digits[n + 1]>>
    ELSE str_int(n \div 10) \o <<Digits[(n % 10) + 1]>>

\* ''.join(parts)
RECURSIVE concat(_)
concat(parts) == IF parts = <<>> THEN <<>> ELSE parts[1] \o concat(Tail(parts))

\* str(VMLElementType.X) for the element types a parse produces
TypeName(type) ==
    CASE type = "section"   -> TypeStr.SECTION
      [] type = "directive" -> TypeStr.DIRECTIVE
      [] type = "heading"   -> TypeStr.HEADING
      [] type = "paragraph" -> TypeStr.PARAGRAPH
      [] type = "table"     -> TypeStr.TABLE

\* the header cells of the TABLE branch of _element_to_html; alignment[i]
\* raises IndexError when the alignment list is shorter than the headers
html_headers(attributes) ==
    IF Len(attributes.headers) > Len(attributes.alignment)
    THEN [raised |-> TRUE, html |-> <<>>]
    ELSE [raised |-> FALSE,
          html |-> concat([n \in 1..Len(attributes.headers) |->
                      HtmlLit.TH1 \o AlignStr(attributes.alignment[n]) \o HtmlLit.Q_GT
                      \o attributes.headers[n] \o HtmlLit.TH2])]

\* one row of the TABLE branch of _element_to_html
html_row(attributes, row) ==
    HtmlLit.TR1
    \o concat([n \in 1..Len(row) |->
          HtmlLit.TD1
          \o (IF n <= Len(attributes.alignment) THEN AlignStr(attributes.alignment[n]) ELSE HtmlLit.LEFT)
          \o HtmlLit.Q_GT \o row[n] \o HtmlLit.TD2])
    \o HtmlLit.TR2

\* ''.join of the html of rendered parts
JoinHtml(parts) == concat([n \in 1..Len(parts) |-> parts[n].html])
AnyRaised(parts) == \E n \in 1..Len(parts) : parts[n].raised

\* the SECTION branch of _element_to_html, kids the rendered children
html_section(element, kids) ==
    [raised |-> AnyRaised(kids),
     html |-> HtmlLit.SEC1 \o element.content \o HtmlLit.Q_GT_NL \o JoinHtml(kids) \o HtmlLit.SEC2]

\* the TABLE branch of _element_to_html, head the rendered header cells
html_table(attributes, head) ==
    [raised |-> head.raised,
     html |-> HtmlLit.TABLE1 \o head.html \o HtmlLit.TABLE2
              \o concat([n \in 1..Len(attributes.rows) |->
                            html_row(attributes, attributes.rows[n])])
              \o HtmlLit.TABLE3]

\* VMLConverter._element_to_html
RECURSIVE element_to_html(_)
element_to_html(element) ==
    CASE element.type = "heading" ->
            [raised |-> FALSE,
             html |-> HtmlLit.LT_H \o str_int(element.attributes.level) \o <<">">>
                      \o element.content
                      \o HtmlLit.LT_SL_H \o str_int(element.attributes.level) \o HtmlLit.GT_NL]
      [] element.type = "paragraph" ->
            [raised |-> FALSE, html |-> HtmlLit.P1 \o element.content \o HtmlLit.P2]
      [] element.type = "section" ->
            html_section(element, [n \in 1..Len(element.children) |->
                                      element_to_html(element.children[n])])
      [] element.type = "table" ->
            html_table(element.attributes, html_headers(element.attributes))
      [] element.type = "directive" ->
            [raised |-> FALSE,
             html |-> IF element.attributes.directive = HtmlLit.INCLUDE
                      THEN HtmlLit.INC1 \o element.content \o HtmlLit.CMT_END
                      ELSE HtmlLit.DIR1 \o element.attributes.directive \o HtmlLit.CMT_END]
      [] OTHER ->
            [raised |-> FALSE,
             html |-> HtmlLit.UNSUP \o TypeName(element.type) \o HtmlLit.CMT_END]

\* the <title> line of vml_to_html
html_title(md) ==
    IF md # <<>> /\ DictHas(md, HtmlLit.TITLE)
    THEN HtmlLit.TITLE1 \o DictGet(md, HtmlLit.TITLE).v \o HtmlLit.TITLE2
    ELSE <<>>

\* vml_to_html after self.parser.parse returned p, parts the rendered elements
html_document(p, parts) ==
    [raised |-> p.raised \/ AnyRaised(parts),
     value |-> HtmlLit.HTML_HEAD \o html_title(p.metadata) \o HtmlLit.HTML_BODY
               \o JoinHtml(parts) \o HtmlLit.HTML_END,
     metadata |-> p.metadata]
html_of(p) ==
    html_document(p, [n \in 1..Len(p.elements) |-> element_to_html(p.elements[n])])

\* VMLConverter.vml_to_html on a converter whose parser's metadata is md:
\* the string returned (or the exception raised) and the parser's metadata
vml_to_html(vml_content, md) == html_of(parse(vml_content, md))

\* a variant that writes the colon of right on the wrong side
md_align_leading(align) ==
    IF align = "left" THEN <<"-", "-", "-">>
    ELSE IF align = "center" THEN <<":", "-", "-", "-", ":">>
    ELSE <<":", "-", "-", "-">>

\* the alignment markers of the TABLE branch of _element_to_markdown
md_align(align) ==
    IF align = "left" THEN <<"-", "-", "-">>
    ELSE IF align = "center" THEN <<":", "-", "-", "-", ":">>
    ELSE <<"-", "-", "-", ":">>

\* '| ' + ' | '.join(cells) + ' |\n'
md_row(cells) == <<"|", " ">> \o join(<<" ", "|", " ">>, cells) \o <<" ", "|", NL>>

\* the three re.sub of the PARAGRAPH branch of _element_to_markdown
md_inline(content) ==
    re_sub(re_sub(re_sub(content, 1, MdLit.B_O, MdLit.B_C, {NL}, <<"*", "*">>, <<"*", "*">>),
                  1, MdLit.I_O, MdLit.I_C, {NL}, <<"*">>, <<"*">>),
           1, MdLit.C_O, MdLit.C_C, {NL}, <<BACKQUOTE>>, <<BACKQUOTE>>)

\* a variant whose fallback is followed by the contents of the children
element_to_markdown_children(element) ==
    CASE element.type = "heading" ->
            [n \in 1..element.attributes.level |-> "#"] \o <<" ">>
            \o element.content \o <<NL, NL>>
      [] element.type = "paragraph" ->
            md_inline(element.content) \o <<NL, NL>>
      [] element.type = "table" ->
            md_row(element.attributes.headers)
            \o md_row([n \in 1..Len(element.attributes.alignment) |->
                          md_align(element.attributes.alignment[n])])
            \o concat([n \in 1..Len(element.attributes.rows) |->
                          md_row(element.attributes.rows[n])])
            \o <<NL>>
      [] OTHER ->
            MdLit.CMT_START \o TypeName(element.type) \o <<":", " ">>
            \o element.content \o MdLit.CMT_END2
            \o concat([n \in 1..Len(element.children) |->
                          element.children[n].content \o <<NL, NL>>])

\* VMLConverter._element_to_markdown
element_to_markdown(element) ==
    CASE element.type = "heading" ->
            [n \in 1..element.attributes.level |-> "#"] \o <<" ">>
            \o element.content \o <<NL, NL>>
      [] element.type = "paragraph" ->
            md_inline(element.content) \o <<NL, NL>>
      [] element.type = "table" ->
            md_row(element.attributes.headers)
            \o md_row([n \in 1..Len(element.attributes.alignment) |->
                          md_align(element.attributes.alignment[n])])
            \o concat([n \in 1..Len(element.attributes.rows) |->
                          md_row(element.attributes.rows[n])])
            \o <<NL>>
      [] OTHER ->
            MdLit.CMT_START \o TypeName(element.type) \o <<":", " ">>
            \o element.content \o MdLit.CMT_END2

\* the 'key: value' lines of a metadata mapping, each followed by tail
meta_lines(md, tail) ==
    [n \in 1..Len(md) |-> md[n].k \o <<":", " ">> \o md[n].v \o tail]

\* the YAML front matter of vml_to_markdown
md_front(md) ==
    IF md # <<>>
    THEN <<"-", "-", "-", NL>> \o concat(meta_lines(md, <<NL>>)) \o <<"-", "-", "-", NL, NL>>
    ELSE <<>>

\* vml_to_markdown after self.parser.parse returned p
markdown_of(p) ==
    [raised |-> p.raised,
     value |-> md_front(p.metadata)
               \o concat([n \in 1..Len(p.elements) |-> element_to_markdown(p.elements[n])]),
     metadata |-> p.metadata]

\* VMLConverter.vml_to_markdown on a converter whose parser's metadata is md
vml_to_markdown(vml_content, md) == markdown_of(parse(vml_content, md))

----------------------------------------------------------------------------
(* VMLLanguageHandler *)

\* re.match(r'^::\s*(\w+)', line) of validate_syntax: g0 is match.group(0);
\* n is the position of the name, w its length
ValidateSectionName(line, n, w) ==
    IF ~startswith(line, <<":", ":">>) \/ w < 1 THEN NoMatch
    ELSE [matched |-> TRUE, g0 |-> SubSeq(line, 1, n + w - 1),
          g1 |-> SubSeq(line, n, n + w - 1)]
ValidateSectionAt(line, n) == ValidateSectionName(line, n, RunOfWord(line, n))

\* a variant of the regex, r'^::\s*(\w+)/?', whose match takes a slash after the name
ValidateSectionSlashAt(line, m) ==
    IF m.matched /\ Len(line) > Len(m.g0) /\ line[Len(m.g0) + 1] = "/"
    THEN [m EXCEPT !.g0 = @ \o <<"/">>]
    ELSE m
ValidateSectionSlash(line) ==
    ValidateSectionSlashAt(line, ValidateSectionAt(line, 3 + RunOfSpace(line, 3)))

\* re.match of validate_syntax on the line
VALIDATE_SECTION(line) == ValidateSectionAt(line, 3 + RunOfSpace(line, 3))

\* the section check of validate_syntax for line k, match the result of
\* re.match(r'^::\s*(\w+)', line): open_sections and errors after it
SectionCheck(match, k, open_sections, errors) ==
    IF ~match.matched THEN [open_sections |-> open_sections, errors |-> errors]
    ELSE IF endswith(match.g0, <<"/">>)
    THEN IF open_sections = <<>> \/ open_sections[Len(open_sections)] # match.g1
         THEN [open_sections |-> open_sections,
               errors |-> Append(errors,
                   ErrLit.LINE \o str_int(k) \o ErrLit.UNMATCHED \o match.g1)]
         ELSE [open_sections |-> SubSeq(open_sections, 1, Len(open_sections) - 1),
               errors |-> errors]
    ELSE [open_sections |-> Append(open_sections, match.g1), errors |-> errors]
validate_section(line, k, open_sections, errors) ==
    SectionCheck(VALIDATE_SECTION(line), k, open_sections, errors)

\* a variant of the loop that flags a line only when it has more opening than
\* closing delimiters
RECURSIVE validate_markup_open_only(_, _, _, _)
validate_markup_open_only(line, k, m, errors) ==
    IF m > Len(CUSTOM_MARKUP) THEN errors
    ELSE validate_markup_open_only(line, k, m + 1,
            IF count(line, CUSTOM_MARKUP[m].start) > count(line, CUSTOM_MARKUP[m].end)
            THEN Append(errors, ErrLit.LINE \o str_int(k) \o ErrLit.UNCLOSED1
                                \o CUSTOM_MARKUP[m].type \o ErrLit.UNCLOSED2)
            ELSE errors)

\* a variant of the loop that emits the diagnostics of a line from the last
\* entry of CUSTOM_MARKUP to the first
RECURSIVE validate_markup_last_first(_, _, _, _)
validate_markup_last_first(line, k, m, errors) ==
    IF m > Len(CUSTOM_MARKUP) THEN errors
    ELSE IF count(line, CUSTOM_MARKUP[m].start) # count(line, CUSTOM_MARKUP[m].end)
         THEN Append(validate_markup_last_first(line, k, m + 1, errors),
                     ErrLit.LINE \o str_int(k) \o ErrLit.UNCLOSED1
                     \o CUSTOM_MARKUP[m].type \o ErrLit.UNCLOSED2)
         ELSE validate_markup_last_first(line, k, m + 1, errors)

\* the loop over CUSTOM_MARKUP.items() of validate_syntax for line k, from entry m on
RECURSIVE validate_markup(_, _, _, _)
validate_markup(line, k, m, errors) ==
    IF m > Len(CUSTOM_MARKUP) THEN errors
    ELSE validate_markup(line, k, m + 1,
            IF count(line, CUSTOM_MARKUP[m].start) # count(line, CUSTOM_MARKUP[m].end)
            THEN Append(errors, ErrLit.LINE \o str_int(k) \o ErrLit.UNCLOSED1
                                \o CUSTOM_MARKUP[m].type \o ErrLit.UNCLOSED2)
            ELSE errors)

\* the for loop of validate_syntax over the lines from k on
RECURSIVE validate_lines(_, _, _, _)
ValidateAfterSection(ls, k, sec) ==
    validate_lines(ls, k + 1, sec.open_sections, validate_markup(ls[k], k, 1, sec.errors))
validate_lines(ls, k, open_sections, errors) ==
    IF k > Len(ls)
    THEN IF open_sections # <<>>
         THEN Append(errors, ErrLit.UNCLOSED_SECTIONS \o join(<<",", " ">>, open_sections))
         ELSE errors
    ELSE ValidateAfterSection(ls, k, validate_section(ls[k], k, open_sections, errors))

\* a variant whose except branch keeps the diagnostics of the scan
validation_after_scan(p, errors) ==
    IF p.raised
    THEN [is_valid |-> FALSE, errors |-> Append(errors, ErrLit.PARSER_ERROR),
          metadata |-> p.metadata]
    ELSE [is_valid |-> Len(errors) = 0, errors |-> errors, metadata |-> p.metadata]

\* validate_syntax after self.parser.parse returned p, errors the result of
\* the scan; the text of the exception, str(e), is not modelled
validation_of(p, errors) ==
    IF p.raised
    THEN [is_valid |-> FALSE, errors |-> <<ErrLit.PARSER_ERROR>>, metadata |-> p.metadata]
    ELSE [is_valid |-> Len(errors) = 0, errors |-> errors, metadata |-> p.metadata]

\* VMLLanguageHandler.validate_syntax on a handler whose parser's metadata is md
validate_syntax(code, md) ==
    validation_of(parse(code, md), validate_lines(split(code, <<NL>>), 1, <<>>, <<>>))

\* re.match(r'^#{1,6}\s+', line) of format_code
FormatHeadingRun(line, h) == h >= 1 /\ h <= 6 /\ RunOfSpace(line, h + 1) >= 1
FORMAT_HEADING(line) == FormatHeadingRun(line, RunOfChar(line, 1, "#"))

\* a variant of the loop that inserts no empty line after a heading
RECURSIVE format_lines_no_gap(_, _, _)
format_lines_no_gap(ls, k, formatted_lines) ==
    IF k > Len(ls) THEN formatted_lines
    ELSE IF strip(ls[k]) = <<"-", "-", "-">>
         THEN format_lines_no_gap(ls, k + 1, formatted_lines)
    ELSE IF FORMAT_HEADING(ls[k])
         THEN format_lines_no_gap(ls, k + 1, Append(formatted_lines, strip(ls[k])))
    ELSE format_lines_no_gap(ls, k + 1, Append(formatted_lines, ls[k]))

\* the for loop of format_code over the lines from k on
RECURSIVE format_lines(_, _, _)
format_lines(ls, k, formatted_lines) ==
    IF k > Len(ls) THEN formatted_lines
    ELSE IF strip(ls[k]) = <<"-", "-", "-">>
         THEN format_lines(ls, k + 1, formatted_lines)
    ELSE IF FORMAT_HEADING(ls[k])
         THEN format_lines(ls, k + 1, formatted_lines \o <<strip(ls[k]), <<>>>>)
    ELSE format_lines(ls, k + 1, Append(formatted_lines, ls[k]))

\* the metadata header of format_code
format_header(md) ==
    IF md # <<>>
    THEN <<<<"-", "-", "-">>>> \o meta_lines(md, <<>>) \o <<<<"-", "-", "-", NL>>>>
    ELSE <<>>

\* a variant whose except branch returns the empty string
formatted_or_empty(code, p) ==
    IF p.raised THEN [value |-> <<>>, metadata |-> p.metadata]
    ELSE [value |-> join(<<NL>>, format_lines(split(code, <<NL>>), 1,
                                              format_header(p.metadata))),
          metadata |-> p.metadata]

\* format_code after self.parser.parse returned p
formatted_of(code, p) ==
    IF p.raised THEN [value |-> code, metadata |-> p.metadata]
    ELSE [value |-> join(<<NL>>, format_lines(split(code, <<NL>>), 1,
                                              format_header(p.metadata))),
          metadata |-> p.metadata]

\* VMLLanguageHandler.format_code on a handler whose parser's metadata is md
format_code(code, md) == formatted_of(code, parse(code, md))

----------------------------------------------------------------------------
(* Input texts *)

\* the sequences of 1..n elements of pool
SeqsUpTo(pool, n) == UNION {[1..m -> pool] : m \in 1..n}

\* the text whose lines are ls
Text(ls) == join(<<NL>>, ls)

\* lines of VML text the specifications draw their inputs from
Sample ==
    [
      \* ':: foo'
      foo |->
        <<":", ":", " ", "f", "o", "o">>,
      \* ':: bar'
      bar |->
        <<":", ":", " ", "b", "a", "r">>,
      \* ':: /foo'
      end_foo |->
        <<":", ":", " ", "/", "f", "o", "o">>,
      \* ':: /bar'
      end_bar |->
        <<":", ":", " ", "/", "b", "a", "r">>,
      \* 'content'
      content |->
        <<"c", "o", "n", "t", "e", "n", "t">>,
      \* '!!urgent'
      urgent_open |->
        <<"!", "!", "u", "r", "g", "e", "n", "t">>,
      \* '!!urgent!!'
      urgent |->
        <<"!", "!", "u", "r", "g", "e", "n", "t", "!", "!">>,
      \* '---'
      delim |->
        <<"-", "-", "-">>,
      \* 'title: Test'
      title |->
        <<"t", "i", "t", "l", "e", ":", " ", "T", "e", "s", "t">>,
      \* 'author: A'
      author |->
        <<"a", "u", "t", "h", "o", "r", ":", " ", "A">>,
      \* '# Title'
      heading |->
        <<"#", " ", "T", "i", "t", "l", "e">>,
      \* 'Hello ${name}.'
      hello |->
        <<"H", "e", "l", "l", "o", " ", "$", "{", "n", "a", "m", "e", "}", ".">>,
      \* ''
      blank |->
        <<>>,
      \* '@note[k=v] hi'
      directive |->
        <<"@", "n", "o", "t", "e", "[", "k", "=", "v", "]", " ", "h", "i">>,
      \* ':: /x'
      stray_end |->
        <<":", ":", " ", "/", "x">>,
      \* '#######'
      hashes7 |->
        <<"#", "#", "#", "#", "#", "#", "#">>,
      \* ':: foo bar'
      trailing |->
        <<":", ":", " ", "f", "o", "o", " ", "b", "a", "r">>,
      \* '## ${a}'
      heading_var |->
        <<"#", "#", " ", "$", "{", "a", "}">>,
      \* '| A | B |'
      row_ab |->
        <<"|", " ", "A", " ", "|", " ", "B", " ", "|">>,
      \* '|---|---|'
      sep_ll |->
        <<"|", "-", "-", "-", "|", "-", "-", "-", "|">>,
      \* '| 1 | 2 |'
      row_12 |->
        <<"|", " ", "1", " ", "|", " ", "2", " ", "|">>,
      \* 'A | B'
      hdr_bare |->
        <<"A", " ", "|", " ", "B">>,
      \* '| A |'
      hdr_one |->
        <<"|", " ", "A", " ", "|">>,
      \* '||'
      hdr_empty |->
        <<"|", "|">>,
      \* '|:-:|--:|'
      sep_cr |->
        <<"|", ":", "-", ":", "|", "-", "-", ":", "|">>,
      \* '|:--|'
      sep_l |->
        <<"|", ":", "-", "-", "|">>,
      \* '| x |'
      row_x |->
        <<"|", " ", "x", " ", "|">>,
      \* '1 | 2'
      stop_bare |->
        <<"1", " ", "|", " ", "2">>,
      \* 'title: Other'
      title_other |->
        <<"t", "i", "t", "l", "e", ":", " ", "O", "t", "h", "e", "r">>,
      \* 'title:  Pad '
      title_pad |->
        <<"t", "i", "t", "l", "e", ":", " ", " ", "P", "a", "d", " ">>,
      \* ':: foo/'
      foo_slash |->
        <<":", ":", " ", "f", "o", "o", "/">>,
      \* '::bar'
      tight_bar |->
        <<":", ":", "b", "a", "r">>,
      \* 'a=v'
      attr_plain |->
        <<"a", "=", "v">>,
      \* 'b="v"'
      attr_dq |->
        <<"b", "=", "\"", "v", "\"">>,
      \* 'c='v''
      attr_sq |->
        <<"c", "=", "'", "v", "'">>,
      \* 'd=""v""'
      attr_dq2 |->
        <<"d", "=", "\"", "\"", "v", "\"", "\"">>,
      \* 'e='"v"''
      attr_mixed |->
        <<"e", "=", "'", "\"", "v", "\"", "'">>,
      \* ' f = "x y" '
      attr_spaced |->
        <<" ", "f", " ", "=", " ", "\"", "x", " ", "y", "\"", " ">>,
      \* 'flag'
      attr_bare |->
        <<"f", "l", "a", "g">>,
      \* ' wide '
      attr_bare_sp |->
        <<" ", "w", "i", "d", "e", " ">>,
      \* 'a=w'
      attr_again |->
        <<"a", "=", "w">>,
      \* '/!a <~b'
      two_open |->
        <<"/", "!", "a", " ", "<", "~", "b">>,
      \* 'b~>'
      close_only |->
        <<"b", "~", ">">>,
      \* '~>x<~'
      swapped |->
        <<"~", ">", "x", "<", "~">>,
      \* '@if cond {'
      dir_if |->
        <<"@", "i", "f", " ", "c", "o", "n", "d", " ", "{">>,
      \* '}'
      brace |->
        <<"}">>,
      \* '@note **b** ${v}'
      dir_inline |->
        <<"@", "n", "o", "t", "e", " ", "*", "*", "b", "*", "*", " ", "$", "{", "v", "}">>,
      \* '# Title  '
      heading_pad |->
        <<"#", " ", "T", "i", "t", "l", "e", " ", " ">>,
      \* ' --- '
      delim_pad |->
        <<" ", "-", "-", "-", " ">>
    ]

\* the longest text, in lines, that a handler call is given
MaxHandlerLines == 3
\* the longest body, in lines, after a metadata block
MaxBodyLines == 1

HandlerLines == {Sample.foo, Sample.end_foo, Sample.end_bar, Sample.content, Sample.urgent_open, Sample.urgent}
BodyLines == {Sample.heading, Sample.content}
MetaBlocks == {<<Sample.delim, Sample.title, Sample.delim>>, <<Sample.delim, Sample.author, Sample.delim>>}

\* the longest metadata block, in lines between its delimiters
MaxBlockLines == 2

\* the closed metadata blocks of up to n lines of pool
Blocks(pool, n) == {<<Sample.delim>> \o ls \o <<Sample.delim>> : ls \in SeqsUpTo(pool, n)}
\* a delimiter that nothing closes and the lines after it
OpenBlocks(pool, n) == {<<Sample.delim>> \o ls : ls \in SeqsUpTo(pool, n)}
\* what follows a metadata block
Bodies == {<<>>} \cup SeqsUpTo(BodyLines, MaxBodyLines)

\* section starts one inside the other, as many as exhaust the recursion limit
DeepText == Text([n \in 1..RecursionLimit |-> Sample.foo])

\* the texts given to the handler: section and markup lines in any order, and
\* a closed metadata block followed by a short body, and the deeply nested text
HandlerTexts ==
    {Text(ls) : ls \in SeqsUpTo(HandlerLines, MaxHandlerLines)}
    \cup {Text(b) : b \in MetaBlocks}
    \cup {Text(b \o ls) : b \in MetaBlocks, ls \in SeqsUpTo(BodyLines, MaxBodyLines)}
    \cup {DeepText}

----------------------------------------------------------------------------
(* Spec: one VMLLanguageHandler (its parser, its converter and the         *)
(* converter's parser) and a caller that calls its entry points one after  *)
(* the other. A call is atomic: the engine is synchronous.                 *)

NoResult == [kind |-> "none"]

Init ==
    /\ pc = "idle"
    /\ op = "none"
    /\ input = <<>>
    /\ lines = <<>>
    /\ i = 0
    /\ elements = <<>>
    /\ metadata = <<>>
    /\ conv_metadata = <<>>
    /\ result = NoResult

\* the call op(text) returns: the parser it ran on keeps r.metadata
Returned(name, text, value) ==
    /\ pc' = "returned"
    /\ op' = name
    /\ input' = text
    /\ result' = value
    /\ UNCHANGED <<lines, i, elements>>

\* the parser of the handler (parse, validate_syntax, format_code) ran
OnParser(r) == metadata' = r.metadata /\ UNCHANGED conv_metadata
\* the parser of the handler's converter (vml_to_html, vml_to_markdown) ran
OnConverter(r) == conv_metadata' = r.metadata /\ UNCHANGED metadata

ParseReturned(text, p) ==
    /\ OnParser(p)
    /\ Returned("parse", text, [kind |-> "elements", raised |-> p.raised, value |-> p.elements])
StringReturned(name, text, r) ==
    /\ OnConverter(r)
    /\ Returned(name, text, [kind |-> "string", raised |-> r.raised, value |-> r.value])
ValidateReturned(text, r) ==
    /\ OnParser(r)
    /\ Returned("validate", text,
                [kind |-> "validation", is_valid |-> r.is_valid, errors |-> r.errors])
FormatReturned(text, r) ==
    /\ OnParser(r)
    /\ Returned("format", text, [kind |-> "string", raised |-> FALSE, value |-> r.value])

\* handler.parser.parse(text)
CallParse(text) == pc = "idle" /\ ParseReturned(text, parse(text, metadata))

\* handler.converter.vml_to_html(text)
CallToHTML(text) == pc = "idle" /\ StringReturned("html", text, vml_to_html(text, conv_metadata))

\* handler.converter.vml_to_markdown(text)
CallToMarkdown(text) ==
    pc = "idle" /\ StringReturned("markdown", text, vml_to_markdown(text, conv_metadata))

\* handler.validate_syntax(text)
CallValidate(text) == pc = "idle" /\ ValidateReturned(text, validate_syntax(text, metadata))

\* handler.format_code(text)
CallFormat(text) == pc = "idle" /\ FormatReturned(text, format_code(text, metadata))

\* the caller takes the returned value; the instances keep their fields
Return ==
    /\ pc = "returned"
    /\ pc' = "idle"
    /\ op' = "none"
    /\ input' = <<>>
    /\ result' = NoResult
    /\ UNCHANGED <<lines, i, elements, metadata, conv_metadata>>

Next ==
    \/ \E text \in HandlerTexts : CallParse(text)
    \/ \E text \in HandlerTexts : CallToHTML(text)
    \/ \E text \in HandlerTexts : CallToMarkdown(text)
    \/ \E text \in HandlerTexts : CallValidate(text)
    \/ \E text \in HandlerTexts : CallFormat(text)
    \/ Return

Spec == Init /\ [][Next]_vars

----------------------------------------------------------------------------
(* SpecParse: one call of VMLParser.parse on a new parser, one step per    *)
(* iteration of its while loop                                             *)

\* the longest text, in lines, of mixed lines
MaxParseLines == 3
\* the longest text, in lines, of section markers and content
MaxSectionLines == 4
\* the most data rows of a table text
MaxTableRows == 2

ParseLines ==
    {Sample.blank, Sample.delim, Sample.directive, Sample.foo, Sample.end_foo,
     Sample.heading, Sample.heading_var, Sample.hello, Sample.row_ab, Sample.sep_ll,
     Sample.stray_end, Sample.hashes7, Sample.trailing}
SectionLines == {Sample.foo, Sample.bar, Sample.end_foo, Sample.end_bar, Sample.content}
TableHeaders == {Sample.row_ab, Sample.hdr_bare, Sample.hdr_one, Sample.hdr_empty}
TableSeparators == {Sample.sep_ll, Sample.sep_cr, Sample.sep_l}
TableRows == {Sample.row_12, Sample.row_x}
TableStops == {<<>>, <<Sample.content>>, <<Sample.stop_bare>>}

\* a header line, a separator line, data rows and what follows them
TableTexts ==
    {Text(<<h, sep>> \o rows \o stop) :
        h \in TableHeaders, sep \in TableSeparators,
        rows \in {<<>>} \cup SeqsUpTo(TableRows, MaxTableRows), stop \in TableStops}

\* a metadata block, closed or left open, after a prefix and before a body
Prefixes == {<<>>, <<Sample.heading>>} \cup Blocks({Sample.title, Sample.author}, 1)
MetaTexts ==
    {Text(p \o b \o t) :
        p \in Prefixes,
        b \in Blocks({Sample.title, Sample.title_other, Sample.author}, MaxBlockLines)
              \cup OpenBlocks({Sample.title, Sample.content, Sample.foo}, MaxBlockLines),
        t \in Bodies}

\* a section, closed or not, whose interior holds a metadata block
SectionBlockTexts ==
    {Text(p \o <<Sample.foo>> \o b \o inner \o close \o after) :
        p \in {<<>>, <<Sample.delim, Sample.title, Sample.delim>>},
        b \in Blocks({Sample.title_other, Sample.author}, 1)
              \cup OpenBlocks({Sample.title_other}, 1),
        inner \in {<<>>, <<Sample.content>>},
        close \in {<<>>, <<Sample.end_foo>>},
        after \in {<<>>, <<Sample.content>>}}

\* the most tokens of a bracketed parameter string
MaxTokens == 2

AttributeTokens ==
    {Sample.attr_plain, Sample.attr_dq, Sample.attr_sq, Sample.attr_dq2, Sample.attr_mixed,
     Sample.attr_spaced, Sample.attr_bare, Sample.attr_bare_sp, Sample.attr_again}
\* the parameter strings: nothing, or tokens separated by commas
AttributeStrings == {<<>>} \cup {join(<<",">>, ts) : ts \in SeqsUpTo(AttributeTokens, MaxTokens)}
\* '@note[...] hi' and ':: foo[...]'
AttributeTexts ==
    {<<"@", "n", "o", "t", "e", "[">> \o a \o <<"]", " ", "h", "i">> : a \in AttributeStrings}
    \cup {Sample.foo \o <<"[">> \o a \o <<"]">> : a \in AttributeStrings}

\* directive lines, the block directives with an opening brace among them,
\* and the lines that stand after one
DirectiveLines == {Sample.directive, Sample.dir_if, Sample.dir_inline}
AfterDirective ==
    {Sample.content, Sample.brace, Sample.heading, Sample.sep_ll, Sample.foo, Sample.delim}
\* the longest text, in lines, after a directive line
MaxAfterDirective == 2
DirectiveTexts ==
    {Text(<<d>>) : d \in DirectiveLines}
    \cup {Text(<<d>> \o ls) : d \in DirectiveLines,
                              ls \in SeqsUpTo(AfterDirective, MaxAfterDirective)}

\* the texts given to parse
ParseTexts ==
    {Text(ls) : ls \in SeqsUpTo(ParseLines, MaxParseLines)}
    \cup {Text(ls) : ls \in SeqsUpTo(SectionLines, MaxSectionLines)}
    \cup TableTexts
    \cup MetaTexts
    \cup SectionBlockTexts
    \cup AttributeTexts
    \cup DirectiveTexts

\* parse(content) was called on a new VMLParser: lines = content.split('\n'),
\* self.elements = [], i = 0
InitParse ==
    /\ pc = "loop"
    /\ op = "parse"
    /\ input \in ParseTexts
    /\ lines = split(input, <<NL>>)
    /\ i = 1
    /\ elements = <<>>
    /\ metadata = <<>>
    /\ conv_metadata = <<>>
    /\ result = NoResult

\* while i < len(lines)
AtLine == pc = "loop" /\ i <= Len(lines)

\* a variant whose metadata branch drops the index that the scan returns
IteratedMetadataStays(st) ==
    /\ pc' = IF st.raised THEN "raised" ELSE "loop"
    /\ i' = IF st.raised \/ st.rule = "metadata" THEN i ELSE st.next
    /\ elements' = IF st.raised THEN elements ELSE elements \o st.element
    /\ metadata' = st.metadata
    /\ result' = IF st.raised THEN [kind |-> "exception"] ELSE result
    /\ UNCHANGED <<op, input, lines, conv_metadata>>

\* the iteration left st: the element is appended, or the exception leaves parse
Iterated(st) ==
    /\ pc' = IF st.raised THEN "raised" ELSE "loop"
    /\ i' = IF st.raised THEN i ELSE st.next
    /\ elements' = IF st.raised THEN elements ELSE elements \o st.element
    /\ metadata' = st.metadata
    /\ result' = IF st.raised THEN [kind |-> "exception"] ELSE result
    /\ UNCHANGED <<op, input, lines, conv_metadata>>

\* if not line.strip(): i += 1; continue
SkipBlank ==
    /\ AtLine /\ parse_rule(lines, i) = "blank"
    /\ Iterated(StepOf("blank", lines, i, metadata, 1))
\* i = self._parse_metadata_block(lines, i + 1); continue
MetadataBlock ==
    /\ AtLine /\ parse_rule(lines, i) = "metadata"
    /\ Iterated(StepOf("metadata", lines, i, metadata, 1))
\* element = self._parse_directive(directive_match, i); i += 1
Directive ==
    /\ AtLine /\ parse_rule(lines, i) = "directive"
    /\ Iterated(StepOf("directive", lines, i, metadata, 1))
\* element, i = self._parse_section(lines, i)
Section ==
    /\ AtLine /\ parse_rule(lines, i) = "section"
    /\ Iterated(StepOf("section", lines, i, metadata, 1))
\* element = self._parse_heading(line, i); i += 1
Heading ==
    /\ AtLine /\ parse_rule(lines, i) = "heading"
    /\ Iterated(StepOf("heading", lines, i, metadata, 1))
\* element, i = self._parse_table(lines, i)
Table ==
    /\ AtLine /\ parse_rule(lines, i) = "table"
    /\ Iterated(StepOf("table", lines, i, metadata, 1))
\* element = self._parse_paragraph(line, i); i += 1
Paragraph ==
    /\ AtLine /\ parse_rule(lines, i) = "paragraph"
    /\ Iterated(StepOf("paragraph", lines, i, metadata, 1))

\* return self.elements
ParseReturn ==
    /\ pc = "loop"
    /\ i > Len(lines)
    /\ pc' = "done"
    /\ result' = [kind |-> "elements", raised |-> FALSE, value |-> elements]
    /\ UNCHANGED <<op, input, lines, i, elements, metadata, conv_metadata>>

NextParse ==
    \/ SkipBlank
    \/ MetadataBlock
    \/ Directive
    \/ Section
    \/ Heading
    \/ Table
    \/ Paragraph
    \/ ParseReturn

SpecParse == InitParse /\ [][NextParse]_vars

----------------------------------------------------------------------------
(* SpecInline: VMLParser._process_inline_elements applied to one text *)

\* the deepest nesting of markup spans in a text
MaxInlineDepth == 2

\* the delimiters of the twelve inline rules
InlinePairs ==
    {[open |-> <<"$", "{">>, close |-> <<"}">>], [open |-> <<"%", "{">>, close |-> <<"}">>],
     [open |-> <<"[", "[">>, close |-> <<"]", "]">>], [open |-> <<"*", "*">>, close |-> <<"*", "*">>],
     [open |-> <<"*">>, close |-> <<"*">>], [open |-> <<BACKQUOTE>>, close |-> <<BACKQUOTE>>]}
    \cup {[open |-> CUSTOM_MARKUP[k].start, close |-> CUSTOM_MARKUP[k].end] :
            k \in 1..Len(CUSTOM_MARKUP)}

\* the letter a inside up to d spans, one inside the other
RECURSIVE Wrapped(_)
Wrapped(d) ==
    IF d = 0 THEN {<<"a">>}
    ELSE Wrapped(d - 1) \cup {p.open \o t \o p.close : p \in InlinePairs, t \in Wrapped(d - 1)}

\* the letter a inside two spans that overlap
Crossed == {p.open \o q.open \o <<"a">> \o p.close \o q.close : p \in InlinePairs, q \in InlinePairs}

InlineTexts == Wrapped(MaxInlineDepth) \cup Crossed

InitInline ==
    /\ pc = "text"
    /\ op = "inline"
    /\ input \in InlineTexts
    /\ lines = <<>>
    /\ i = 0
    /\ elements = <<>>
    /\ metadata = <<>>
    /\ conv_metadata = <<>>
    /\ result = NoResult

\* self._process_inline_elements(text)
ProcessInline ==
    /\ pc = "text"
    /\ pc' = "processed"
    /\ result' = [kind |-> "string", raised |-> FALSE, value |-> process_inline_elements(input)]
    /\ UNCHANGED <<op, input, lines, i, elements, metadata, conv_metadata>>

NextInline == ProcessInline

SpecInline == InitInline /\ [][NextInline]_vars

----------------------------------------------------------------------------
(* SpecRoundTrip: a table text is parsed, one Table of the result rendered *)
(* by VMLConverter._element_to_markdown, and the rendering parsed again    *)

InitRoundTrip ==
    /\ pc = "text"
    /\ op = "roundtrip"
    /\ input \in TableTexts
    /\ lines = <<>>
    /\ i = 0
    /\ elements = <<>>
    /\ metadata = <<>>
    /\ conv_metadata = <<>>
    /\ result = NoResult

\* elements = VMLParser().parse(text)
ParseText ==
    /\ pc = "text"
    /\ pc' = "parsed"
    /\ elements' = parse(input, <<>>).elements
    /\ UNCHANGED <<op, input, lines, i, metadata, conv_metadata, result>>

\* rendering = converter._element_to_markdown(elements[n]) for a Table elements[n]
Rendered(n) ==
    /\ elements[n].type = "table"
    /\ pc' = "rendered"
    /\ i' = n
    /\ result' = [kind |-> "string", raised |-> FALSE,
                  value |-> element_to_markdown(elements[n])]
    /\ UNCHANGED <<op, input, lines, elements, metadata, conv_metadata>>
RenderTable == pc = "parsed" /\ \E n \in 1..Len(elements) : Rendered(n)

\* VMLParser().parse(rendering)
Reparsed(rendering, p) ==
    /\ pc' = "reparsed"
    /\ result' = [kind |-> "elements", raised |-> p.raised, value |-> p.elements,
                  rendering |-> rendering]
    /\ UNCHANGED <<op, input, lines, i, elements, metadata, conv_metadata>>
ParseRendering == pc = "rendered" /\ Reparsed(result.value, parse(result.value, <<>>))

NextRoundTrip ==
    \/ ParseText
    \/ RenderTable
    \/ ParseRendering

SpecRoundTrip == InitRoundTrip /\ [][NextRoundTrip]_vars

----------------------------------------------------------------------------
(* What the specification means by well-formed sections and markup *)

\* the stack of open section names after one more line, by the rule table's own
\* section-start and section-end patterns; an end marker closes the innermost
\* open section when it carries its name
OpenAfterLine(stack, start, end) ==
    IF start.matched THEN Append(stack, start.g1)
    ELSE IF end.matched /\ stack # <<>> /\ stack[Len(stack)] = end.g1
    THEN SubSeq(stack, 1, Len(stack) - 1)
    ELSE stack

\* the stack of open section names after the first n lines
RECURSIVE OpenAfter(_, _)
OpenAfter(ls, n) ==
    IF n = 0 THEN <<>>
    ELSE OpenAfterLine(OpenAfter(ls, n - 1),
                       SECTION_START_PATTERN(ls[n]), SECTION_END_PATTERN(ls[n]))

\* line n is an end marker that does not close the innermost open section
UnmatchedClose(end, stack) ==
    end.matched /\ (stack = <<>> \/ stack[Len(stack)] # end.g1)
UnmatchedCloseAt(ls, n) == UnmatchedClose(SECTION_END_PATTERN(ls[n]), OpenAfter(ls, n - 1))

\* every end marker closes the innermost open section, and none stays open
WellNested(ls) ==
    /\ \A n \in 1..Len(ls) : ~UnmatchedCloseAt(ls, n)
    /\ OpenAfter(ls, Len(ls)) = <<>>

\* the delimiters of markup m pair up in the line
Paired(line, m) ==
    IF m.start = m.end THEN count(line, m.start) % 2 = 0
    ELSE count(line, m.start) = count(line, m.end)
MarkupBalanced(ls) ==
    \A n \in 1..Len(ls) : \A k \in 1..Len(CUSTOM_MARKUP) : Paired(ls[n], CUSTOM_MARKUP[k])

WellFormed(text) == WellNested(split(text, <<NL>>)) /\ MarkupBalanced(split(text, <<NL>>))

Validated == pc = "returned" /\ op = "validate"

----------------------------------------------------------------------------
(* Claims about validate, checked under Spec *)

\* C1: for every input whose section markers are correctly nested and
\* name-matched and whose lines have balanced custom markup, validate returns
\* is_valid = true with an empty diagnostic list
C1_WellFormedValidatesClean ==
    (Validated /\ WellFormed(input)) => (result.is_valid /\ result.errors = <<>>)

\* f'Line {n}: Unmatched section closing tag: {name}'
UnmatchedDiagnostic(n, name) == ErrLit.LINE \o str_int(n) \o ErrLit.UNMATCHED \o name

\* the last diagnostic is the 'Unclosed sections' one and names every section of stack
NamesUnclosed(errors, stack) ==
    /\ errors # <<>>
    /\ startswith(errors[Len(errors)], ErrLit.UNCLOSED_SECTIONS)
    /\ \A k \in 1..Len(stack) : Contains(errors[Len(errors)], stack[k])

InSeq(x, seq) == \E k \in 1..Len(seq) : seq[k] = x

UnmatchedReported(ls, errors) ==
    \A n \in 1..Len(ls) :
        UnmatchedCloseAt(ls, n)
            => InSeq(UnmatchedDiagnostic(n, SECTION_END_PATTERN(ls[n]).g1), errors)
UnclosedReported(errors, stack) == stack # <<>> => NamesUnclosed(errors, stack)

\* C2: an end marker on line n whose name differs from the innermost open
\* section, or that arrives with no section open, yields 'Line n: Unmatched
\* section closing tag: name', and every section still open at the end of the
\* input is named in a final 'Unclosed sections' diagnostic
C2_UnmatchedClosingTagReported ==
    Validated =>
        /\ UnmatchedReported(split(input, <<NL>>), result.errors)
        /\ UnclosedReported(result.errors, OpenAfter(split(input, <<NL>>), Len(split(input, <<NL>>))))
        /\ (~WellNested(split(input, <<NL>>)) => ~result.is_valid)

\* f'Line {n}: Unclosed emphasis markup'
UnclosedEmphasis(n) == ErrLit.LINE \o str_int(n) \o ErrLit.UNCLOSED1 \o CUSTOM_MARKUP[1].type \o ErrLit.UNCLOSED2

\* the line holds an emphasis opener '!!' that no later '!!' terminates
UnterminatedEmphasis(line) == count(line, <<"!", "!">>) % 2 = 1

EmphasisFlagged(ls, errors) ==
    \A n \in 1..Len(ls) : UnterminatedEmphasis(ls[n]) <=> InSeq(UnclosedEmphasis(n), errors)

\* C3: validate flags a line with an unterminated emphasis opener with 'Line n:
\* Unclosed emphasis markup', and no line with terminated emphasis spans
C3_UnclosedEmphasisFlagged == Validated => EmphasisFlagged(split(input, <<NL>>), result.errors)

----------------------------------------------------------------------------
(* Claims about the state a call leaves, checked under Spec *)

\* the metadata mapping of the parser that ran the last call
UsedMetadata == IF op \in {"html", "markdown"} THEN conv_metadata ELSE metadata

\* what a parser built for this call alone would hold
FreshMetadata(text) == parse(text, <<>>).metadata

\* the output carries no metadata the text does not set
NoStaleOutput(fresh) ==
    /\ (op = "html" /\ ~DictHas(fresh, HtmlLit.TITLE)) => ~Contains(result.value, HtmlLit.TITLE1)
    /\ (op \in {"markdown", "format"} /\ fresh = <<>>) => ~Contains(result.value, Sample.delim)

\* C4: after any sequence of earlier calls on the same instances, the metadata
\* mapping used by the current call holds exactly the keys set by the current
\* call's own text, and html, markdown and format output carry no title,
\* front matter or header that the current text does not set
C4_NothingPersistsBetweenCalls ==
    pc = "returned" => (UsedMetadata = FreshMetadata(input) /\ NoStaleOutput(FreshMetadata(input)))

----------------------------------------------------------------------------
(* Claims about parse, checked under SpecParse *)

Last(seq) == seq[Len(seq)]

\* the iteration appends exactly one element and goes on
OneAppended == pc' = "loop" /\ Len(elements') = Len(elements) + 1

\* the first line after k that closes the section started on line k, every
\* section opened in between closed in turn by an end marker of its name; 0
\* when there is none
MatchingEnd(ls, k) == FirstOr({m \in (k + 1)..Len(ls) : WellNested(SubSeq(ls, k, m))}, 0)

\* the loop is at a section start marker
SectionStartAtLine == AtLine /\ parse_rule(lines, i) = "section"

\* the Section appended has the parse of the lines k+1..m-1 as its children,
\* and the loop resumes on line m+1
ChildrenBetween(k, m) ==
    /\ OneAppended
    /\ Last(elements').type = "section"
    /\ Last(elements').children = parse(Text(SubSeq(lines, k + 1, m - 1)), <<>>).elements
    /\ i' = m + 1

\* C5: a Section whose start marker has a matching end marker (sections nested
\* in it, of the same or of another name, closed properly) has as children the
\* parse of exactly the lines strictly between the two markers, and parsing
\* resumes on the line after the end marker
C5_SectionChildren ==
    [][(SectionStartAtLine /\ MatchingEnd(lines, i) # 0)
          => ChildrenBetween(i, MatchingEnd(lines, i))]_vars

\* none of the blank, metadata-delimiter, directive, section-start and heading
\* rules takes the line
ReachesTableRule(line) ==
    /\ strip(line) # <<>>
    /\ ~METADATA_PATTERN(line)
    /\ ~DIRECTIVE_PATTERN(line).matched
    /\ ~SECTION_START_PATTERN(line).matched
    /\ ~HEADING_PATTERN(line).matched

\* a pipe, one or more of whitespace, '-', ':' and '|', and a pipe
SeparatorShaped(line) ==
    /\ Len(line) >= 3
    /\ line[1] = "|"
    /\ line[Len(line)] = "|"
    /\ \A n \in 2..(Len(line) - 1) : IsSpace(line[n]) \/ line[n] \in {"-", ":", "|"}

\* a pipe, one or more characters, and a pipe
RowShaped(line) == Len(line) >= 3 /\ line[1] = "|" /\ line[Len(line)] = "|"

FollowedBySeparator(ls, k) == k + 1 <= Len(ls) /\ SeparatorShaped(ls[k + 1])

\* no rule of the main loop takes the line
Unrecognized(ls, k) == ReachesTableRule(ls[k]) /\ ~FollowedBySeparator(ls, k)

ParagraphAppended ==
    /\ OneAppended
    /\ i' = i + 1
    /\ Last(elements').type = "paragraph"
    /\ Last(elements').line_number = i - 1

\* C6: parse never raises, and every non-blank line reached by the main loop
\* that matches none of the metadata-delimiter, directive, section-start,
\* heading and table rules yields exactly one Paragraph
C6_ParseNeverRaises ==
    /\ [](pc # "raised")
    /\ [][(AtLine /\ Unrecognized(lines, i)) => ParagraphAppended]_vars

\* '# Title', '', 'Hello ${name}.'
HeadingExample == Text(<<Sample.heading, Sample.blank, Sample.hello>>)
HeadingExampleElements ==
    <<VMLElement("heading", <<"T", "i", "t", "l", "e">>, [level |-> 1], <<>>, 0),
      VMLElement("paragraph", <<"H", "e", "l", "l", "o", " ", "<", "v", "a", "r", ">", "n", "a", "m", "e", "<", "/", "v", "a", "r", ">", ".">>, [dict |-> <<>>], <<>>, 2)>>

\* n '#' (1 to 6), w >= 1 whitespace characters, and text
HashesThenText(line, n, w) == n \in 1..6 /\ w >= 1 /\ n + w < Len(line)
HeadingLevel(line) == RunOfChar(line, 1, "#")
HeadingSpace(line) == RunOfSpace(line, HeadingLevel(line) + 1)
IsHeadingLine(line) == HashesThenText(line, HeadingLevel(line), HeadingSpace(line))
HeadingText(line) == From(line, HeadingLevel(line) + HeadingSpace(line) + 1)

VariableNames == {<<"n", "a", "m", "e">>, <<"a">>, <<"b">>}
\* '${x}' and '<var>x</var>'
VariableRef(x) == <<"$", "{">> \o x \o <<"}">>
VariableTag(x) == <<"<", "v", "a", "r", ">">> \o x \o <<"<", "/", "v", "a", "r", ">">>

\* every ${x} of the line stands as <var>x</var> in the content
VariablesReplaced(line, content) ==
    \A x \in VariableNames :
        /\ count(content, VariableTag(x)) >= count(line, VariableRef(x))
        /\ ~Contains(content, VariableRef(x))

BlankSkipped ==
    (AtLine /\ strip(lines[i]) = <<>>) => (pc' = "loop" /\ i' = i + 1 /\ elements' = elements)

HeadingEmitted ==
    (AtLine /\ IsHeadingLine(lines[i])) =>
        /\ OneAppended
        /\ i' = i + 1
        /\ Last(elements').type = "heading"
        /\ Last(elements').attributes = [level |-> HeadingLevel(lines[i])]
        /\ Last(elements').content = process_inline_elements(HeadingText(lines[i]))
        /\ VariablesReplaced(lines[i], Last(elements').content)

PlainLineEmitted ==
    (AtLine /\ Unrecognized(lines, i)) =>
        (ParagraphAppended /\ VariablesReplaced(lines[i], Last(elements').content))

\* the elements stand in the order of their source lines
SourceOrder ==
    \A a \in 1..Len(elements) : \A b \in 1..Len(elements) :
        a < b => elements[a].line_number < elements[b].line_number

\* C8: parse skips blank lines and emits elements in source order; a line of 1
\* to 6 '#', whitespace and text becomes a Heading whose level is the number
\* of '#' and whose text is the inline-substituted remainder; any other plain
\* line becomes one Paragraph with every ${x} replaced by <var>x</var>; the
\* text '# Title', blank, 'Hello ${name}.' parses to exactly
\* [Heading(level 1, 'Title'), Paragraph('Hello <var>name</var>.')]
C8_HeadingsAndParagraphs ==
    /\ [](SourceOrder)
    /\ []((pc = "done" /\ input = HeadingExample) => result.value = HeadingExampleElements)
    /\ [][BlankSkipped /\ HeadingEmitted /\ PlainLineEmitted]_vars

C8_Witness ==
    /\ pc = "done"
    /\ input = HeadingExample
    /\ result.value = HeadingExampleElements

\* the trimmed pipe-separated cells of a line
TrimmedCells(parts) == [n \in 1..Len(parts) |-> strip(parts[n])]
CellsOfLine(line) == TrimmedCells(split(StripSet(line, {"|"}), <<"|">>))

\* colon on both ends -> center, trailing colon only -> right, otherwise left
AlignmentOfCell(cell) ==
    IF cell # <<>> /\ cell[1] = ":" /\ cell[Len(cell)] = ":" THEN "center"
    ELSE IF cell # <<>> /\ cell[Len(cell)] = ":" THEN "right"
    ELSE "left"
AlignmentOfCells(cells) == [n \in 1..Len(cells) |-> AlignmentOfCell(cells[n])]

\* the first line after the separator that is not row-shaped
TableEnd(ls, k) == FirstOr({n \in (k + 2)..Len(ls) : ~RowShaped(ls[n])}, Len(ls) + 1)

TableOfLines(ls, k, end) ==
    [headers |-> CellsOfLine(ls[k]),
     alignment |-> AlignmentOfCells(CellsOfLine(ls[k + 1])),
     rows |-> [n \in 1..(end - k - 2) |-> CellsOfLine(ls[k + 1 + n])]]

TableEmitted ==
    (AtLine /\ ReachesTableRule(lines[i]) /\ FollowedBySeparator(lines, i)) =>
        /\ OneAppended
        /\ Last(elements').type = "table"
        /\ Last(elements').attributes = TableOfLines(lines, i, TableEnd(lines, i))
        /\ i' = TableEnd(lines, i)

\* '| A | B |', '|---|---|', '| 1 | 2 |'
TableExample == Text(<<Sample.row_ab, Sample.sep_ll, Sample.row_12>>)
TableExampleAttributes ==
    [headers |-> <<<<"A">>, <<"B">>>>, alignment |-> <<"left", "left">>,
     rows |-> << <<<<"1">>, <<"2">>>> >>]

\* C9: a line that reaches the table rule with a separator-shaped line after
\* it yields one Table: headers are the trimmed pipe-separated cells of the
\* line, alignment has one entry per separator cell (colon on both ends ->
\* center, trailing colon only -> right, otherwise left), rows are the cells of
\* the following row-shaped lines up to the first line that is not row-shaped;
\* '| A | B |', '|---|---|', '| 1 | 2 |' gives [A,B], [left,left], [[1,2]]
C9_TableParsed ==
    /\ []((pc = "done" /\ input = TableExample) =>
            (Len(result.value) = 1 /\ result.value[1].type = "table"
             /\ result.value[1].attributes = TableExampleAttributes))
    /\ [][TableEmitted]_vars

C9_Witness ==
    /\ pc = "done"
    /\ input = TableExample
    /\ result.value[1].attributes = TableExampleAttributes

----------------------------------------------------------------------------
(* The claim about inline substitution, checked under SpecInline *)

\* one replacement rule: the text between open and close goes between tags
Rule(text, open, close, excl, tag) ==
    re_sub(text, 1, open, close, excl, <<"<">> \o tag \o <<">">>, <<"<", "/">> \o tag \o <<">">>)

RuleVariables(text) == Rule(text, <<"$", "{">>, <<"}">>, {"}"}, <<"v", "a", "r">>)
RuleTemplates(text) == Rule(text, <<"%", "{">>, <<"}">>, {"}"}, <<"t", "e", "m", "p", "l", "a", "t", "e">>)
RuleAnnotations(text) == Rule(text, <<"[", "[">>, <<"]", "]">>, {"]"}, <<"a", "n", "n", "o", "t", "a", "t", "i", "o", "n">>)
RuleEmphasis(text) == Rule(text, <<"!", "!">>, <<"!", "!">>, {NL}, <<"e", "m", "p", "h", "a", "s", "i", "s">>)
RuleContext(text) == Rule(text, <<"<", "~">>, <<"~", ">">>, {NL}, <<"c", "o", "n", "t", "e", "x", "t">>)
RuleNote(text) == Rule(text, <<"(", "*">>, <<"*", ")">>, {NL}, <<"n", "o", "t", "e">>)
RuleWarning(text) == Rule(text, <<"/", "!">>, <<"!", "/">>, {NL}, <<"w", "a", "r", "n", "i", "n", "g">>)
RuleSuccess(text) == Rule(text, <<"/", "+">>, <<"+", "/">>, {NL}, <<"s", "u", "c", "c", "e", "s", "s">>)
RuleCodeReference(text) == Rule(text, <<"@", "[">>, <<"]", "@">>, {NL}, <<"c", "o", "d", "e", "_", "r", "e", "f">>)
RuleBold(text) == Rule(text, <<"*", "*">>, <<"*", "*">>, {NL}, <<"b">>)
RuleItalic(text) == Rule(text, <<"*">>, <<"*">>, {NL}, <<"i">>)
RuleInlineCode(text) == Rule(text, <<BACKQUOTE>>, <<BACKQUOTE>>, {NL}, <<"c", "o", "d", "e">>)

\* the twelve rules, each on the complete output of the one before
InOrder(text) ==
    RuleInlineCode(RuleItalic(RuleBold(RuleCodeReference(RuleSuccess(RuleWarning(
        RuleNote(RuleContext(RuleEmphasis(RuleAnnotations(RuleTemplates(
            RuleVariables(text))))))))))))

\* C7: inline substitution applies its rules in the order variables, templates,
\* annotations, emphasis, context, note, warning, success, code-reference,
\* bold, italic, inline code, each on the complete output of the one before
C7_InlineOrder == pc = "processed" => result.value = InOrder(input)

\* '(**a**)' becomes a note around an italic span, where bold first would give bold
C7_Witness ==
    /\ pc = "processed"
    /\ input = <<"(", "*", "*", "a", "*", "*", ")">>
    /\ result.value = <<"<", "n", "o", "t", "e", ">", "<", "i", ">", "a", "<", "/", "i", ">", "<", "/", "n", "o", "t", "e", ">">>

----------------------------------------------------------------------------
(* The claim about the Markdown round trip, checked under SpecRoundTrip *)

\* '|:-:|--:|' under 'A | B' renders as center and right
AlignedExample == Text(<<Sample.hdr_bare, Sample.sep_cr>>)
AlignedRendering == <<"|", " ", "A", " ", "|", " ", "B", " ", "|">> \o <<NL>> \o <<"|", " ", ":", "-", "-", "-", ":", " ", "|", " ", "-", "-", "-", ":", " ", "|">> \o <<NL, NL>>
LeftRendering ==
    <<"|", " ", "A", " ", "|", " ", "B", " ", "|">> \o <<NL>> \o <<"|", " ", "-", "-", "-", " ", "|", " ", "-", "-", "-", " ", "|">> \o <<NL>> \o <<"|", " ", "1", " ", "|", " ", "2", " ", "|">> \o <<NL, NL>>

\* C10: parsing the toMarkdown rendering of a Table that parse produced gives
\* a Table with the same headers, the same alignment list and the same rows;
\* left is written '---', center ':---:', right '---:'
C10_TableRoundTrip ==
    /\ pc = "reparsed" =>
        /\ ~result.raised
        /\ Len(result.value) = 1
        /\ result.value[1].type = "table"
        /\ result.value[1].attributes = elements[i].attributes
    /\ (pc = "rendered" /\ input = AlignedExample) => result.value = AlignedRendering
    /\ (pc = "rendered" /\ input = TableExample) => result.value = LeftRendering

C10_Witness ==
    /\ pc = "reparsed"
    /\ input = AlignedExample
    /\ result.value[1].attributes.alignment = <<"center", "right">>
    /\ result.value[1].attributes = elements[i].attributes

----------------------------------------------------------------------------
(* SpecCall: one entry point of a VMLLanguageHandler called once on a text, *)
(* on a handler whose parsers hold the metadata an earlier call left there  *)

\* the longest text of section and markup lines, in lines
MaxCallLines == 2

\* handler lines, section starts with a slash after the name or no space,
\* lines whose markup delimiters are unpaired or out of order, a directive,
\* headings, and a line that strips to '---'
CallLines ==
    HandlerLines
    \cup {Sample.foo_slash, Sample.tight_bar}
    \cup {Sample.two_open, Sample.close_only, Sample.swapped, Sample.directive}
    \cup {Sample.heading, Sample.heading_pad, Sample.delim_pad}
BlockLines == {Sample.title, Sample.title_other, Sample.title_pad, Sample.author}

\* tables of a header line, a separator line and at most one data row, with
\* more, as many and fewer header cells than separator cells
CallTableTexts ==
    {Text(<<h, sep>> \o rows) : h \in TableHeaders, sep \in TableSeparators,
                                rows \in {<<>>, <<Sample.row_12>>, <<Sample.row_x>>}}

\* the deeply nested text with an unpaired closing delimiter on its last line
DeepOpenText == Text([n \in 1..RecursionLimit |-> Sample.foo] \o <<Sample.close_only>>)

\* a closed leading metadata block and a short body; two closed blocks; section
\* and markup lines in any order; the deeply nested texts; the tables
CallTexts ==
    {Text(b \o body) : b \in Blocks(BlockLines, MaxBlockLines), body \in Bodies}
    \cup {Text(b \o c) : b \in Blocks(BlockLines, 1), c \in Blocks(BlockLines, 1)}
    \cup {Text(ls) : ls \in SeqsUpTo(CallLines, MaxCallLines)}
    \cup {DeepText, DeepOpenText}
    \cup CallTableTexts

\* self.metadata of a parser: {} after __init__, or what an earlier parse left
EarlierMetadata == {<<>>, <<[k |-> HtmlLit.TITLE, v |-> <<"O", "l", "d">>]>>}

InitCall ==
    /\ pc = "idle"
    /\ op = "none"
    /\ input \in CallTexts
    /\ lines = <<>>
    /\ i = 0
    /\ elements = <<>>
    /\ metadata \in EarlierMetadata
    /\ conv_metadata \in EarlierMetadata
    /\ result = NoResult

NextCall ==
    \/ CallParse(input)
    \/ CallToHTML(input)
    \/ CallToMarkdown(input)
    \/ CallValidate(input)
    \/ CallFormat(input)

SpecCall == InitCall /\ [][NextCall]_vars

----------------------------------------------------------------------------
(* The claims about vml_to_html, format_code and validate_syntax, checked  *)
(* under SpecCall                                                          *)

\* the line is 'title: v'; TitleOf is v without surrounding whitespace
IsTitleLine(line) == startswith(line, <<"t", "i", "t", "l", "e", ":", " ">>)
TitleOf(line) == strip(From(line, 8))
\* the line gives the key title a value
SetsTitle(line) == startswith(line, <<"t", "i", "t", "l", "e", ":">>)

\* the indices of the lines inside the closed metadata block that opens ls
LeadingBlock(ls) ==
    IF Len(ls) >= 1 /\ ls[1] = Sample.delim
    THEN 2..(FirstOr({k \in 2..Len(ls) : ls[k] = Sample.delim}, 1) - 1)
    ELSE {}

\* html has '<title>v</title>' between '<head>' and '<body>'
TitleTag(v) == <<"<", "t", "i", "t", "l", "e", ">">> \o v \o <<"<", "/", "t", "i", "t", "l", "e", ">">>
TitleInHead(html, v) ==
    /\ Contains(html, TitleTag(v))
    /\ Find(html, <<"<", "h", "e", "a", "d", ">">>) < Find(html, TitleTag(v))
    /\ Find(html, TitleTag(v)) < Find(html, <<"<", "b", "o", "d", "y", ">">>)

\* the title lines of the leading block of ls, or only those that no later
\* line overrides, are in the head of html
TitlesInHead(ls, html, only_last) ==
    \A k \in LeadingBlock(ls) :
        (/\ IsTitleLine(ls[k])
         /\ only_last => \A j \in (k + 1)..Len(ls) : ~SetsTitle(ls[j]))
        => TitleInHead(html, TitleOf(ls[k]))

HtmlReturned == pc = "returned" /\ op = "html" /\ ~result.raised

FormatReturnedValue == pc = "returned" /\ op = "format"
\* self.parser.parse(code) raises, whatever metadata the parser holds
ParseRaises(code) == parse(code, <<>>).raised

\* C12: format_code is fail-safe: whenever the parse attempted inside it
\* raises, it returns its input text unchanged, and no exception reaches
\* the caller
C12_FormatFailSafe ==
    FormatReturnedValue =>
        /\ ~result.raised
        /\ ParseRaises(input) => result.value = input

\* the deeply nested text, on which parse raises, comes back as it was given
C12_Witness ==
    /\ FormatReturnedValue
    /\ input = DeepText
    /\ ParseRaises(input)
    /\ ~result.raised
    /\ result.value = DeepText

\* the line begins with '::', optional whitespace and a word character
BeginsSection(line) ==
    /\ startswith(line, <<":", ":">>)
    /\ 3 + RunOfSpace(line, 3) <= Len(line)
    /\ IsWord(line[3 + RunOfSpace(line, 3)])
\* the word that begins there
SectionWord(line) ==
    SubSeq(line, 3 + RunOfSpace(line, 3),
           2 + RunOfSpace(line, 3) + RunOfWord(line, 3 + RunOfSpace(line, 3)))

\* the words of the lines among the first n that begin a section, in order
RECURSIVE PushedNames(_, _)
PushedNames(ls, n) ==
    IF n = 0 THEN <<>>
    ELSE IF BeginsSection(ls[n]) THEN Append(PushedNames(ls, n - 1), SectionWord(ls[n]))
    ELSE PushedNames(ls, n - 1)

\* the matched text of the section regex ends in '/' on no line
NoClosingMatch(ls) ==
    \A n \in 1..Len(ls) :
        ~(VALIDATE_SECTION(ls[n]).matched /\ endswith(VALIDATE_SECTION(ls[n]).g0, <<"/">>))

\* the scan ends with every name pushed still on the stack
AllStillOpen(errors, names) ==
    IF names = <<>>
    THEN \A k \in 1..Len(errors) : ~startswith(errors[k], ErrLit.UNCLOSED_SECTIONS)
    ELSE /\ errors # <<>>
         /\ errors[Len(errors)] = ErrLit.UNCLOSED_SECTIONS \o join(<<",", " ">>, names)

\* C15: in the structural scan of validate_syntax the closing-tag branch is
\* unreachable: on no line does the section regex match with a matched text
\* ending in '/', no 'Unmatched section closing tag' diagnostic is emitted, and
\* every line beginning with '::', optional whitespace and a word character
\* is pushed and is still on the stack at the end of the input
C15_ClosingBranchDead ==
    Validated =>
        /\ NoClosingMatch(split(input, <<NL>>))
        /\ \A k \in 1..Len(result.errors) : ~Contains(result.errors[k], ErrLit.UNMATCHED)
        /\ ~ParseRaises(input)
            => AllStillOpen(result.errors,
                            PushedNames(split(input, <<NL>>), Len(split(input, <<NL>>))))

\* ':: foo/' after ':: foo': both lines are pushed, nothing is popped
C15_Witness ==
    /\ Validated
    /\ input = Text(<<Sample.foo, Sample.foo_slash>>)
    /\ result.errors = <<ErrLit.UNCLOSED_SECTIONS \o <<"f", "o", "o", ",", " ", "f", "o", "o">>>>

----------------------------------------------------------------------------
(* The claims about metadata blocks, attributes and sections, checked      *)
(* under SpecParse                                                         *)

\* C13: within one parse call the metadata mapping is populated at most
\* once, from the first delimited block: once it holds the keys of a block,
\* the lines of a later block neither add a key nor change a value
C13_MetadataPopulatedOnce == [][metadata # <<>> => metadata' = metadata]_vars

QuoteChars == {"\"", "'"}
\* v without one layer of surrounding quote characters
OneLayerOff(v) ==
    IF Len(v) >= 2 /\ v[1] \in QuoteChars /\ v[Len(v)] \in QuoteChars
    THEN SubSeq(v, 2, Len(v) - 1)
    ELSE v

\* the mapping after one more token: key=value, or a bare key that maps to true
StatedToken(attributes, token) ==
    IF Contains(token, <<"=">>)
    THEN DictSet(attributes, [k |-> strip(Split1(token, <<"=">>)[1]), true |-> FALSE,
                              v |-> OneLayerOff(strip(Split1(token, <<"=">>)[2]))])
    ELSE DictSet(attributes, [k |-> strip(token), true |-> TRUE, v |-> <<>>])

RECURSIVE StatedTokens(_, _)
StatedTokens(tokens, n) ==
    IF n = 0 THEN <<>> ELSE StatedToken(StatedTokens(tokens, n - 1), tokens[n])

\* the mapping the parameter string s stands for
StatedAttributes(s) ==
    IF s = <<>> THEN <<>>
    ELSE StatedTokens(split(s, <<",">>), Len(split(s, <<",">>)))

DirectiveAsStated(element, line) ==
    element.type = "directive"
        => element.attributes.params = StatedAttributes(DIRECTIVE_PATTERN(line).g2)

\* C14: the bracketed parameter string is split on commas; a token with '='
\* maps its trimmed key to its trimmed value with exactly one layer of
\* surrounding quote characters removed; a token without '=' maps its trimmed
\* text to true; an empty parameter string gives an empty mapping
C14_AttributeParsing ==
    \A n \in 1..Len(elements) :
        DirectiveAsStated(elements[n], lines[elements[n].line_number + 1])

\* a section after a closed block 'title: Test'; its interior holds a closed
\* block 'title: Other' and a line of content
NestedBlockExample ==
    Text(<<Sample.delim, Sample.title, Sample.delim, Sample.foo, Sample.delim,
           Sample.title_other, Sample.delim, Sample.content, Sample.end_foo, Sample.content>>)
TitleTestOnly == <<[k |-> HtmlLit.TITLE, v |-> <<"T", "e", "s", "t">>]>>

\* the step at a section start leaves the metadata of the parser alone and
\* adds the Section, and nothing else, to its element list (nothing when the
\* nested parse raises)
SectionFrame ==
    SectionStartAtLine =>
        /\ metadata' = metadata
        /\ \/ pc' = "raised" /\ elements' = elements
           \/ /\ OneAppended
              /\ SubSeq(elements', 1, Len(elements)) = elements
              /\ Last(elements').type = "section"

\* C17: the parse of a section's interior uses its own accumulator: it adds
\* no element to the parent's list other than the single Section, and never
\* changes the parent's metadata, even when the interior holds a metadata
\* block, whose keys are then absent from the metadata of the document
C17_ChildOwnAccumulator ==
    /\ [][SectionFrame]_vars
    /\ []((pc = "done" /\ input = NestedBlockExample) => metadata = TitleTestOnly)

C17_Witness ==
    /\ pc = "done"
    /\ input = NestedBlockExample
    /\ metadata = TitleTestOnly
    /\ Len(elements) = 2
    /\ elements[1].type = "section"
    /\ Len(elements[1].children) = 1
    /\ elements[1].children[1].type = "paragraph"
    /\ elements[2].type = "paragraph"

\* the nesting counter of the scan of the section started on line k, after
\* line m: every section start adds one, an end marker of the name takes one off
RECURSIVE NestingAfter(_, _, _, _)
NestingAfter(ls, k, m, name) ==
    IF m = k THEN 1
    ELSE NestingAfter(ls, k, m - 1, name)
         + (IF SECTION_START_PATTERN(ls[m]).matched THEN 1
            ELSE IF SECTION_END_PATTERN(ls[m]).matched /\ SECTION_END_PATTERN(ls[m]).g1 = name
                 THEN -1
            ELSE 0)

\* the first line that brings the counter to zero, 0 when none does
ScanEnd(ls, k, name) ==
    FirstOr({m \in (k + 1)..Len(ls) : NestingAfter(ls, k, m, name) = 0}, 0)

\* the Section appended has the parse of the lines from..to as its children
SectionHolds(from, to) ==
    /\ OneAppended
    /\ Last(elements').type = "section"
    /\ Last(elements').children = parse(Text(SubSeq(lines, from, to)), <<>>).elements

\* the scan of the section started on line k, m the line that ends it: every
\* line before m, end markers of other names included, is content; with no
\* such line the content is all that remains and the loop goes on to return
SectionScanned(k, m) ==
    IF m = 0
    THEN SectionHolds(k + 1, Len(lines)) /\ i' > Len(lines)
    ELSE pc' = "raised" \/ (SectionHolds(k + 1, m - 1) /\ i' = m + 1)

\* C18: during a section scan an end marker of another name never closes the
\* section and is no error: the line is kept as content and the scan goes on;
\* when no line brings the nesting counter to zero the section extends to the
\* end of the input, all remaining lines are its content, and parse still
\* returns normally
C18_MismatchedEndKept ==
    [][SectionStartAtLine
          => SectionScanned(i, ScanEnd(lines, i, SECTION_START_PATTERN(lines[i]).g1))]_vars

\* the loop is at a metadata delimiter that no later delimiter closes
OpenBlockAtLine ==
    /\ AtLine
    /\ parse_rule(lines, i) = "metadata"
    /\ \A m \in (i + 1)..Len(lines) : ~METADATA_PATTERN(lines[m])

\* C19: when a metadata delimiter has no later closing delimiter, every
\* following line up to the end of the input is consumed as metadata: no
\* element is produced from them, their 'key: value' pairs are merged into the
\* metadata mapping, and parsing ends at the end of the input
C19_OpenBlockMerged ==
    [][OpenBlockAtLine
          => /\ pc' = "loop"
             /\ elements' = elements
             /\ i' = Len(lines) + 1
             /\ metadata' = process_metadata(metadata, SubSeq(lines, i + 1, Len(lines)), 1)]_vars

\* the first rule, in the order blank, metadata delimiter, directive, section
\* start, heading, table, paragraph, that matches line k
StatedRule(ls, k) ==
    IF strip(ls[k]) = <<>> THEN "blank"
    ELSE IF METADATA_PATTERN(ls[k]) THEN "metadata"
    ELSE IF DIRECTIVE_PATTERN(ls[k]).matched THEN "directive"
    ELSE IF SECTION_START_PATTERN(ls[k]).matched THEN "section"
    ELSE IF HEADING_PATTERN(ls[k]).matched THEN "heading"
    ELSE IF FollowedBySeparator(ls, k) THEN "table"
    ELSE "paragraph"

\* the element appended comes from the line at the index alone
OneLineElement(type) ==
    /\ OneAppended
    /\ Last(elements').type = type
    /\ Last(elements').line_number = i - 1
    /\ i' = i + 1

\* the line at the index is the header of the Table appended
HeaderOfTable ==
    /\ OneAppended
    /\ Last(elements').type = "table"
    /\ Last(elements').line_number = i - 1
    /\ Last(elements').attributes.headers = CellsOfLine(lines[i])
    /\ i' >= i + 2

\* what the iteration does when rule takes the line at the index
StepIs(rule) ==
    CASE rule = "blank" -> pc' = "loop" /\ elements' = elements /\ i' = i + 1
      [] rule = "metadata" -> pc' = "loop" /\ elements' = elements /\ i' >= i + 1
      [] rule = "directive" -> OneLineElement("directive")
      [] rule = "section" ->
            pc' = "raised" \/ (OneAppended /\ Last(elements').type = "section")
      [] rule = "heading" -> OneLineElement("heading")
      [] rule = "table" -> HeaderOfTable
      [] OTHER -> OneLineElement("paragraph")

\* the line is a directive, a section start or a heading
TakenBefore(line) ==
    \/ DIRECTIVE_PATTERN(line).matched
    \/ SECTION_START_PATTERN(line).matched
    \/ HEADING_PATTERN(line).matched

\* a directive, section start or heading before a separator-shaped line is no
\* table header; another non-blank line (a metadata delimiter too, when
\* delimiters is true) before a separator-shaped line is one
NextLineOnlyForTables(delimiters) ==
    FollowedBySeparator(lines, i) =>
        /\ TakenBefore(lines[i]) => ~HeaderOfTable
        /\ (/\ strip(lines[i]) # <<>>
            /\ ~TakenBefore(lines[i])
            /\ delimiters \/ ~METADATA_PATTERN(lines[i]))
           => HeaderOfTable

\* C20 as stated: parse classifies the line at the index by the first
\* matching rule in the order blank, metadata delimiter, directive, section
\* start, heading, table, paragraph; a directive, section start or heading
\* followed by a separator-shaped line is never a table header, and any other
\* non-blank line followed by a separator-shaped line becomes a Table header
C20_AnyOtherLineIsHeader ==
    [][AtLine => (StepIs(StatedRule(lines, i)) /\ NextLineOnlyForTables(TRUE))]_vars

\* C20, amended: the same, except that a metadata delimiter followed by a
\* separator-shaped line opens a metadata block and is no table header: any
\* non-blank line other than a metadata delimiter, directive, section start or
\* heading becomes a Table header when a separator-shaped line follows
C20_RuleOrder ==
    [][AtLine => (StepIs(StatedRule(lines, i)) /\ NextLineOnlyForTables(FALSE))]_vars

\* '# Title' before '|---|---|' is a Heading, and the separator a Paragraph
C20_Witness ==
    /\ pc = "done"
    /\ input = Text(<<Sample.heading, Sample.sep_ll>>)
    /\ Len(elements) = 2
    /\ elements[1].type = "heading"
    /\ elements[2].type = "paragraph"

----------------------------------------------------------------------------
(* SpecInterleave: two threads call parse on the same VMLParser. The lists *)
(* are objects: elements.lists holds every list created so far, and        *)
(* elements.self is the one the field self.elements refers to. The locals  *)
(* lines and i are per thread; a thread runs one statement of parse (the   *)
(* set-up, one iteration of the loop, the return) at a time.               *)

Threads == {1, 2}

\* the longest text, in lines, a thread parses
MaxInterleaveLines == 2

InterleaveTexts ==
    {Text(ls) : ls \in SeqsUpTo(BodyLines, MaxInterleaveLines)}
    \cup {Text(b) : b \in MetaBlocks}

\* a variant that empties the list in place, self.elements.clear()
Cleared(e) == [e EXCEPT !.lists[e.self] = <<>>]

\* self.elements = []: a new list object, and the field refers to it
Rebound(e) == [self |-> Len(e.lists) + 1, lists |-> Append(e.lists, <<>>)]

\* self.elements.append(element): the list the field refers to grows
AppendedThroughField(e, element) == [e EXCEPT !.lists[e.self] = @ \o element]

\* the instance after __init__, and a text for each thread
InitInterleave ==
    /\ pc = [t \in Threads |-> "call"]
    /\ op = "parse"
    /\ input \in [Threads -> InterleaveTexts]
    /\ lines = [t \in Threads |-> <<>>]
    /\ i = [t \in Threads |-> 0]
    /\ elements = [self |-> 1, lists |-> <<<<>>>>]
    /\ metadata = <<>>
    /\ conv_metadata = <<>>
    /\ result = [t \in Threads |-> NoResult]

\* lines = content.split('\n'); self.elements = []; i = 0
Begin(t) ==
    /\ pc[t] = "call"
    /\ pc' = [pc EXCEPT ![t] = "loop"]
    /\ lines' = [lines EXCEPT ![t] = split(input[t], <<NL>>)]
    /\ i' = [i EXCEPT ![t] = 1]
    /\ elements' = Rebound(elements)
    /\ UNCHANGED <<op, input, metadata, conv_metadata, result>>

\* one iteration of the while loop left st
IteratedBy(t, st) ==
    /\ pc' = [pc EXCEPT ![t] = IF st.raised THEN "raised" ELSE "loop"]
    /\ i' = [i EXCEPT ![t] = IF st.raised THEN @ ELSE st.next]
    /\ elements' = IF st.raised THEN elements ELSE AppendedThroughField(elements, st.element)
    /\ metadata' = st.metadata
    /\ result' = [result EXCEPT ![t] = IF st.raised THEN [kind |-> "exception"] ELSE @]
    /\ UNCHANGED <<op, input, lines, conv_metadata>>

\* while i < len(lines): one iteration by thread t
Iterate(t) ==
    /\ pc[t] = "loop"
    /\ i[t] <= Len(lines[t])
    /\ IteratedBy(t, parse_step(lines[t], i[t], metadata, 1))

\* return self.elements: the list the field refers to now
ReturnList(t) ==
    /\ pc[t] = "loop"
    /\ i[t] > Len(lines[t])
    /\ pc' = [pc EXCEPT ![t] = "done"]
    /\ result' = [result EXCEPT ![t] =
                    [kind |-> "elements", raised |-> FALSE, list |-> elements.self,
                     value |-> elements.lists[elements.self]]]
    /\ UNCHANGED <<op, input, lines, i, elements, metadata, conv_metadata>>

NextInterleave ==
    \/ \E t \in Threads : Begin(t)
    \/ \E t \in Threads : Iterate(t)
    \/ \E t \in Threads : ReturnList(t)

SpecInterleave == InitInterleave /\ [][NextInterleave]_vars

----------------------------------------------------------------------------
(* The claim about interleaved parse calls, checked under SpecInterleave *)

\* seq begins with prefix
IsPrefix(prefix, seq) ==
    Len(prefix) <= Len(seq) /\ SubSeq(seq, 1, Len(prefix)) = prefix

\* the start of a call binds the field to a new empty list and leaves every
\* list made before as it was
StartRebinds(t) ==
    pc[t] = "call" /\ pc'[t] = "loop"
        => /\ elements'.self = Len(elements.lists) + 1
           /\ elements'.lists[elements'.self] = <<>>
           /\ SubSeq(elements'.lists, 1, Len(elements.lists)) = elements.lists

\* an iteration appends to the list the field refers to, whichever call made
\* that list, and to no other
AppendsThroughField(t) ==
    pc[t] = "loop" /\ pc'[t] = "loop" /\ i'[t] # i[t]
        => /\ elements'.self = elements.self
           /\ Len(elements'.lists) = Len(elements.lists)
           /\ \A n \in 1..Len(elements.lists) :
                IF n = elements.self
                THEN IsPrefix(elements.lists[n], elements'.lists[n])
                ELSE elements'.lists[n] = elements.lists[n]

\* a call returns the list the field refers to when it returns
ReturnsField(t) ==
    pc[t] = "loop" /\ pc'[t] = "done"
        => result'[t].list = elements.self /\ result'[t].value = elements.lists[elements.self]

BothReturned == \A t \in Threads : pc[t] = "done"

\* the list a call returned holds the parse of its own input and nothing else
Isolated(t) == result[t].value = parse(input[t], <<>>).elements

\* C16: two parse calls on one parser that interleave are not isolated: the
\* element list is re-bound at the start of each call and appended to through
\* the field, so calls that overlap return one and the same list, and only
\* calls that return different lists, one having returned before the other
\* began, each return the parse of their own input alone
C16_SharedAccumulator ==
    /\ [][\A t \in Threads : StartRebinds(t) /\ AppendsThroughField(t) /\ ReturnsField(t)]_vars
    /\ []((BothReturned /\ result[1].list # result[2].list) => \A t \in Threads : Isolated(t))

\* thread 1 parses 'content', thread 2 '# Title': both return the list
\* that holds the Paragraph and the Heading
C16_Witness ==
    /\ BothReturned
    /\ input[1] = Sample.content
    /\ input[2] = Sample.heading
    /\ result[1].list = result[2].list
    /\ ~Isolated(2)
    /\ Len(result[2].value) = 2
    /\ result[2].value[1].type = "paragraph"
    /\ result[2].value[2].type = "heading"

----------------------------------------------------------------------------
(* The section markers of validate_syntax against those of the parser      *)

\* validate_syntax takes the line as an opening tag: its own regex matches
\* and the matched text does not end in '/'
ScanOpens(line) ==
    VALIDATE_SECTION(line).matched /\ ~endswith(VALIDATE_SECTION(line).g0, <<"/">>)
\* validate_syntax takes the line as a closing tag
ScanCloses(line) ==
    VALIDATE_SECTION(line).matched /\ endswith(VALIDATE_SECTION(line).g0, <<"/">>)

\* C21: validate_syntax and the parser agree on the section markers: a line
\* is an opener for the structural scan of validate_syntax if and only if it
\* matches SECTION_START_PATTERN, and a closer if and only if it matches
\* SECTION_END_PATTERN
C21_SameSectionMarkers ==
    Validated =>
        \A n \in 1..Len(split(input, <<NL>>)) :
            /\ ScanOpens(split(input, <<NL>>)[n])
                   <=> SECTION_START_PATTERN(split(input, <<NL>>)[n]).matched
            /\ ScanCloses(split(input, <<NL>>)[n])
                   <=> SECTION_END_PATTERN(split(input, <<NL>>)[n]).matched

----------------------------------------------------------------------------
(* The order of the diagnostics of validate_syntax                         *)

\* 'Line n: Unclosed t markup' for entry m of CUSTOM_MARKUP, whose type is t
MarkupDiagnostic(n, m) ==
    ErrLit.LINE \o str_int(n) \o ErrLit.UNCLOSED1 \o CUSTOM_MARKUP[m].type \o ErrLit.UNCLOSED2
\* the entry is a diagnostic of one line
PerLine(e) == startswith(e, ErrLit.LINE)
\* the entry is the diagnostic of line n with rank r: rank 0 is the section
\* diagnostic, rank m the markup diagnostic of entry m of CUSTOM_MARKUP
HasRank(e, n, r) ==
    IF r = 0 THEN startswith(e, ErrLit.LINE \o str_int(n) \o ErrLit.UNMATCHED)
    ELSE e = MarkupDiagnostic(n, r)
\* e is of an earlier line than f, or of the same line with a lower rank
DiagnosticBefore(e, f, nlines) ==
    \E a, b \in 1..nlines : \E r, s \in 0..Len(CUSTOM_MARKUP) :
        /\ HasRank(e, a, r)
        /\ HasRank(f, b, s)
        /\ a < b \/ (a = b /\ r < s)

\* C22: the diagnostics of validate_syntax are ordered: the per-line
\* diagnostics come with non-decreasing 1-based line numbers, within one line
\* the section diagnostic before the markup diagnostics and these in the
\* order of CUSTOM_MARKUP; an 'Unclosed sections' diagnostic is the last
\* entry and lists the names still open in the order they were opened
C22_DiagnosticsOrdered ==
    Validated =>
        /\ \A j, k \in 1..Len(result.errors) :
               j < k /\ PerLine(result.errors[j]) /\ PerLine(result.errors[k])
                   => DiagnosticBefore(result.errors[j], result.errors[k],
                              Len(split(input, <<NL>>)))
        /\ \A k \in 1..Len(result.errors) :
               startswith(result.errors[k], ErrLit.UNCLOSED_SECTIONS)
                   => /\ k = Len(result.errors)
                      /\ result.errors[k] = ErrLit.UNCLOSED_SECTIONS
                             \o join(<<",", " ">>,
                                     PushedNames(split(input, <<NL>>),
                                                 Len(split(input, <<NL>>))))

\* ':: foo' and '/!a <~b': the context diagnostic of line 2, then its warning
\* diagnostic, then the unclosed section
C22_Witness ==
    /\ Validated
    /\ input = Text(<<Sample.foo, Sample.two_open>>)
    /\ result.errors = << MarkupDiagnostic(2, 2), MarkupDiagnostic(2, 4),
                          ErrLit.UNCLOSED_SECTIONS \o <<"f", "o", "o">> >>

----------------------------------------------------------------------------
(* The markup diagnostics of validate_syntax                               *)

\* how many entries of errors, from entry k on, are the diagnostic e
RECURSIVE NumberOf(_, _, _)
NumberOf(errors, e, k) ==
    IF k > Len(errors) THEN 0
    ELSE (IF errors[k] = e THEN 1 ELSE 0) + NumberOf(errors, e, k + 1)

----------------------------------------------------------------------------
(* The output of format_code on a text that parses                         *)

\* what one input line becomes: nothing if it strips to '---', the stripped
\* line and an empty line if it is a heading line, else the line as it is
FormattedLine(line) ==
    IF strip(line) = <<"-", "-", "-">> THEN <<>>
    ELSE IF FORMAT_HEADING(line) THEN <<strip(line), <<>>>>
    ELSE <<line>>
\* the '---'-delimited 'key: value' block of a mapping, an empty line after it
FormattedBlock(md) ==
    IF md = <<>> THEN <<>>
    ELSE <<Sample.delim>>
         \o [n \in 1..Len(md) |-> md[n].k \o <<":", " ">> \o md[n].v]
         \o <<Sample.delim, <<>>>>

----------------------------------------------------------------------------
(* Directive lines, checked under SpecParse                                *)

\* the loop is at a line that DIRECTIVE_PATTERN matches
DirectiveAtLine == AtLine /\ DIRECTIVE_PATTERN(lines[i]).matched

\* the element carries the name, the attributes of the bracketed parameters
\* and the trailing text of the line as it stands, and has no children
CarriesDirective(element, line) ==
    /\ element.attributes.directive = DIRECTIVE_PATTERN(line).g1
    /\ element.attributes.params = parse_attributes(DIRECTIVE_PATTERN(line).g2)
    /\ element.content = DIRECTIVE_PATTERN(line).g3
    /\ element.children = <<>>

\* the elements with d added to their line numbers
Renumbered(els, d) == [n \in 1..Len(els) |-> [els[n] EXCEPT !.line_number = @ + d]]

\* the elements after element n are those of a parse of the lines after the
\* line of element n on their own, numbered from that line on
RestParsedAlone(n) ==
    SubSeq(elements, n + 1, Len(elements))
        = Renumbered(
              parse(Text(SubSeq(lines, elements[n].line_number + 2, Len(lines))),
                    <<>>).elements,
              elements[n].line_number + 1)

\* C25 as stated: when parse returns, the elements after a Directive are
\* the very elements, line numbers included, of a parse of the lines after
\* its line on their own
C25_RestSameElements ==
    pc = "done" =>
        \A n \in 1..Len(elements) :
            elements[n].type = "directive" =>
                SubSeq(elements, n + 1, Len(elements))
                    = parse(Text(SubSeq(lines, elements[n].line_number + 2, Len(lines))),
                            <<>>).elements

\* C25: an iteration at a directive line appends exactly one Directive
\* element, which carries the directive name, the attribute mapping of the
\* bracketed parameters and the trailing text without inline substitution
\* and has no children, and it advances by exactly that line; when parse
\* returns, the elements after a Directive are the elements of a parse of
\* the lines after its line on their own, their line numbers counted from
\* the start of the whole text
C25_DirectiveOneLine ==
    /\ [][DirectiveAtLine =>
              /\ OneLineElement("directive")
              /\ CarriesDirective(Last(elements'), lines[i])
              /\ SubSeq(elements', 1, Len(elements)) = elements]_vars
    /\ [](pc = "done" =>
              \A n \in 1..Len(elements) :
                  elements[n].type = "directive" => RestParsedAlone(n))

\* '@if cond {', 'content', '}': a Directive with the text 'cond {', and the
\* body line and the closing brace as the Paragraphs they are on their own
C25_Witness ==
    /\ pc = "done"
    /\ input = Text(<<Sample.dir_if, Sample.content, Sample.brace>>)
    /\ Len(elements) = 3
    /\ elements[1].type = "directive"
    /\ elements[1].content = <<"c", "o", "n", "d", " ", "{">>
    /\ elements[2].type = "paragraph"
    /\ elements[2].content = Sample.content
    /\ elements[3].type = "paragraph"
    /\ elements[3].content = Sample.brace
    /\ RestParsedAlone(1)

----------------------------------------------------------------------------
(* Sections and directives in the output of vml_to_markdown                *)

MarkdownReturned == pc = "returned" /\ op = "markdown" /\ ~result.raised

\* the fallback line of an element, '<!-- kind: content -->', and the empty
\* line after it
FallbackLine(element) ==
    MdLit.CMT_START \o TypeName(element.type) \o <<":", " ">>
    \o element.content \o MdLit.CMT_END2

\* what an element of the document contributes to the output: a Section or a
\* Directive its fallback line, whatever its children
StatedMarkdown(element) ==
    IF element.type \in {"section", "directive"} THEN FallbackLine(element)
    ELSE element_to_markdown(element)

\* C26: in the output of vml_to_markdown a Section, and likewise a Directive,
\* is one comment-style fallback line naming its kind and content, and
\* nothing is emitted for the children of a Section: the output is the front
\* matter followed by the contributions of the top-level elements alone
C26_ContainersAreFallbackLines ==
    MarkdownReturned =>
        result.value =
            md_front(conv_metadata)
            \o concat([n \in 1..Len(parse(input, <<>>).elements) |->
                           StatedMarkdown(parse(input, <<>>).elements[n])])

\* ':: foo' with the Paragraph 'content' inside it: the output
\* is the fallback line of the Section and holds nothing of the child
C26_Witness ==
    /\ MarkdownReturned
    /\ conv_metadata = <<>>
    /\ input = Text(<<Sample.foo, Sample.content>>)
    /\ Len(parse(input, <<>>).elements) = 1
    /\ parse(input, <<>>).elements[1].type = "section"
    /\ Len(parse(input, <<>>).elements[1].children) = 1
    /\ result.value = FallbackLine(parse(input, <<>>).elements[1])
    /\ ~Contains(result.value, parse(input, <<>>).elements[1].children[1].content)

----------------------------------------------------------------------------
(* The verdict of validate_syntax                                          *)

\* C27: validate_syntax returns is_valid = true exactly when the list of
\* diagnostics it returns is empty; when the parse inside it raises, it
\* returns all the same, with is_valid = false and a list whose only entry
\* begins with 'Parser error: '
C27_ValidIffNoDiagnostics ==
    Validated =>
        /\ result.kind = "validation"
        /\ result.is_valid <=> result.errors = <<>>
        /\ ParseRaises(input) =>
               /\ ~result.is_valid
               /\ Len(result.errors) = 1
               /\ startswith(result.errors[1], ErrLit.PARSER_ERROR)

\* the deeply nested text whose last line has an unpaired '~>': the parse
\* raises, and the list holds the parser error and no markup diagnostic
C27_Witness ==
    /\ Validated
    /\ input = DeepOpenText
    /\ ParseRaises(input)
    /\ ~result.is_valid
    /\ Len(result.errors) = 1
    /\ startswith(result.errors[1], ErrLit.PARSER_ERROR)

----------------------------------------------------------------------------
(* Termination of parse: SpecParse for a call that keeps running. The     *)
(* interpreter executes the next iteration of a loop it is in, and the     *)
(* return statement once the loop has ended. RunsOn is weak fairness of    *)
(* the iterations, with their enabling condition, AtLine, written out.     *)

RunsOn == []<>(~AtLine) \/ []<><<NextParse>>_vars
SpecParseFair == SpecParse /\ RunsOn /\ WF_vars(ParseReturn)

\* content_lines of the section that the iteration parsed: the lines after
\* the start marker up to the line the scan stopped at
ContentLines == SubSeq(lines, i + 1, i' - 2)
\* the lines of the text that the nested parser is given
NestedLines == split(Text(ContentLines), <<NL>>)

\* C28 as stated: the nested parser of a section is given strictly fewer
\* lines than the parser that called it
C28_NestedHasFewerLines ==
    [][(SectionStartAtLine /\ pc' = "loop") => Len(NestedLines) < Len(lines)]_vars

\* the iteration goes on at a greater index, at most one past the exit index;
\* a section or table scan returns past the line after the one it was
\* entered at; a section passes on fewer content lines than its parser has,
\* which make a text of as many lines, or of one empty line when there are none
Advances ==
    /\ pc' = "loop"
    /\ i' > i
    /\ i' <= Len(lines) + 2
    /\ parse_rule(lines, i) \in {"section", "table"} => i' >= i + 2
    /\ parse_rule(lines, i) = "section" =>
           /\ Len(ContentLines) < Len(lines)
           /\ Len(NestedLines) = Max({1, Len(ContentLines)})

\* C28: parse ends on every text: every iteration of the main loop, the
\* metadata, section and table scans run inside it included, either raises or
\* leaves the index greater than it found it; the content lines a section
\* hands to its nested parser are strictly fewer than the lines of its own
\* parser; and the call returns or raises in the end
C28_ParseTerminates ==
    /\ [][AtLine => (pc' = "raised" \/ Advances)]_vars
    /\ <>(pc \in {"done", "raised"})

\* ':: foo' alone: the section has no content lines, its nested parser is
\* given the empty text, one line as its caller, and parse has returned
C28_Witness ==
    /\ pc = "done"
    /\ input = Sample.foo
    /\ Len(lines) = 1
    /\ i = 3
    /\ Len(elements) = 1
    /\ elements[1].type = "section"
    /\ elements[1].children = <<>>
    /\ Len(split(Text(<<>>), <<NL>>)) = 1

----------------------------------------------------------------------------
(* Tables in vml_to_html                                                   *)

\* the number of cells in the rows from row n on
RECURSIVE CellsFrom(_, _)
CellsFrom(rows, n) == IF n > Len(rows) THEN 0 ELSE Len(rows[n]) + CellsFrom(rows, n + 1)
\* the header and data cells of a Table
CellsOfTable(element) ==
    Len(element.attributes.headers) + CellsFrom(element.attributes.rows, 1)

\* the text parses to one Table and nothing else
OneTable(text) ==
    /\ ~parse(text, <<>>).raised
    /\ Len(parse(text, <<>>).elements) = 1
    /\ parse(text, <<>>).elements[1].type = "table"

\* C29: vml_to_html returns normally on every text that parses to a Table,
\* whatever the numbers of header, separator and data cells, and renders
\* every header and data cell with a text-align value
C29_EveryTableRendered ==
    (pc = "returned" /\ op = "html" /\ OneTable(input)) =>
        /\ ~result.raised
        /\ count(result.value, <<"t", "e", "x", "t", "-", "a", "l", "i", "g", "n">>)
               = CellsOfTable(parse(input, <<>>).elements[1])

----------------------------------------------------------------------------
(* A second pass of format_code                                            *)

\* format_code(input) has returned on a handler that was new when called
FormattedOnNewHandler ==
    /\ FormatReturnedValue
    /\ metadata = format_code(input, <<>>).metadata
    /\ result.value = format_code(input, <<>>).value

\* C30: format_code is idempotent: on a new handler, format_code of the text
\* that format_code returned is that text again, with no further empty line
\* after a heading and no further copy of the metadata
C30_FormatIdempotent ==
    FormattedOnNewHandler => format_code(result.value, metadata).value = result.value

====
